---- MODULE Spec2Model ----
(***************************************************************************)
(* DISP-TR: the dual-engine crossfade controller of                        *)
(* DisperserAudioProcessor and the reverse overlap-add pipeline of its     *)
(* Engine, modelled from Source/PluginProcessor.cpp (the third, current    *)
(* revision in that file, lines 2156-4338) and the class declaration.      *)
(*                                                                         *)
(* Numbers.  Sample rates are whole Hz.  Stage-count values that the code  *)
(* keeps as float (the amount parameter and its smoother) are kept in      *)
(* tenths.  Audio samples are not numbers here: a sample is the set of     *)
(* terms it is a sum of, each term recording where it came from, so that   *)
(* "exactly zero", "delayed by d samples" and "times -1" can be decided    *)
(* for every input at once.                                                *)
(***************************************************************************)
EXTENDS Integers, Sequences, FiniteSets, TLC

(***************************************************************************)
(* Program constants.                                                      *)
(***************************************************************************)
kAmountMin == 0
kAmountMax == 256
kAmountDefault == 32
kSeriesMin == 1
kSeriesMax == 4
kSeriesDefault == 1
kMaxSafeWindowSamples == 1048576
kMaxSafeTransitionSamples == 1048576
kMinTransitionSamples == 16

(***************************************************************************)
(* Bounds of the model: what the host may send.                            *)
(***************************************************************************)
\* Largest block the host delivers (samples per processBlock call).
MaxBlock == 8
\* Block sizes the host delivers; 0 is the degenerate empty block.
BlockSizes == {0, MaxBlock - 2, MaxBlock}
\* Channel counts of the delivered buffer.
ChannelCounts == {2}
\* Raw values of the amount (stage count) parameter, out-of-range ones included.
HostAmounts == {-1, 511}
\* Raw values of the series (chain count) parameter, out-of-range ones included.
HostSeries == {5}
\* Sample rates passed to prepareToPlay: a non-finite one, zero, and valid ones.
HostSampleRates == {[finite |-> FALSE, hz |-> 0], [finite |-> TRUE, hz |-> 0],
                    [finite |-> TRUE, hz |-> 8]}

(***************************************************************************)
(* juce::jlimit, jmax, jmin and the roundings the code uses.               *)
(***************************************************************************)
jmax(a, b) == IF a >= b THEN a ELSE b
jmin(a, b) == IF a <= b THEN a ELSE b
jlimit(lo, hi, v) == IF v < lo THEN lo ELSE IF v > hi THEN hi ELSE v

\* std::lround / std::round of n/d (d > 0): nearest, halves away from zero.
RoundDiv(n, d) == IF n >= 0 THEN (2 * n + d) \div (2 * d)
                  ELSE -((2 * (-n) + d) \div (2 * d))
\* std::ceil of n/d for n >= 0, d > 0.
CeilDiv(n, d) == (n + d - 1) \div d

\* sanitizeSampleRate: a finite positive rate, else 0.
sanitizeSampleRate(sr) == IF sr.finite /\ sr.hz > 0 THEN sr.hz ELSE 0

(***************************************************************************)
(* Engine: the scalar fields and the sizes of its buffers.                 *)
(***************************************************************************)
\* A default-constructed Engine (member initialisers; all vectors empty).
EngineDefault ==
    [sampleRate |-> 0, maxWindowSamples |-> 1,
     amount |-> 0, activeStages |-> 0, series |-> 1, reverse |-> FALSE,
     coeffSize |-> 0, netSize |-> 0,
     winN |-> 1, hopH |-> 1, inWritePos |-> 0, hopCounter |-> 0,
     ringSize |-> 0, olaSize |-> 0, olaReadPos |-> 0, olaWritePos |-> 0,
     framesReady |-> 0, frameSize |-> 0, winSize |-> 0]

\* 10^4 * std::pow (n, 0.70f) for n = a / kAmountMax, for the stage counts the
\* model's hosts can reach (float arithmetic of the source, rounded).
Pow070E4(a) ==
    CASE a <= 0 -> 0
      [] a = 1 -> 206
      [] a = 2 -> 335
      [] a = 3 -> 445
      [] a = 255 -> 9973
      [] a >= 256 -> 10000

\* Engine::windowSamplesFromAmount: winMs = 5 + 245 * n^0.7, in samples, limited
\* to [1, maxWindowSamples].
windowSamplesFromAmount(e, a) ==
    LET winMsE4 == 50000 + 245 * Pow070E4(a)
        ws == RoundDiv(winMsE4 * e.sampleRate, 10000000)
    IN  jlimit(1, e.maxWindowSamples, ws)

\* resetReverseOLA with the write cursor left on the read cursor.
resetReverseOLA_noLead(e, newN) ==
    LET n == jlimit(1, e.maxWindowSamples, newN)
        olaSize == jmax(2, 2 * n)
    IN  [e EXCEPT !.winN = n, !.hopH = jmax(1, n \div 2),
                  !.ringSize = n, !.inWritePos = 0, !.hopCounter = 0,
                  !.olaSize = olaSize, !.olaReadPos = 0,
                  !.olaWritePos = 0,
                  !.framesReady = 0, !.frameSize = n, !.winSize = n]

\* Engine::resetReverseOLA.
resetReverseOLA(e, newN) ==
    LET n == jlimit(1, e.maxWindowSamples, newN)
        olaSize == jmax(2, 2 * n)
    IN  [e EXCEPT !.winN = n, !.hopH = jmax(1, n \div 2),
                  !.ringSize = n, !.inWritePos = 0, !.hopCounter = 0,
                  !.olaSize = olaSize, !.olaReadPos = 0,
                  !.olaWritePos = IF n >= olaSize THEN n - olaSize ELSE n,
                  !.framesReady = 0, !.frameSize = n, !.winSize = n]

\* Engine::init (called with a sanitised, positive rate by prepareToPlay).
EngineInit(e, hz) ==
    IF hz <= 0 THEN e
    ELSE resetReverseOLA(
           [e EXCEPT !.sampleRate = hz,
                     !.maxWindowSamples =
                         jlimit(1, kMaxSafeWindowSamples, CeilDiv(hz, 4)),
                     !.amount = 0, !.activeStages = 0, !.series = 1,
                     !.reverse = FALSE,
                     !.coeffSize = kAmountMax, !.netSize = kAmountMax], 1)

\* Engine::ensureAllStages: the coefficient vector and every chain are resized
\* to exactly the active stage count.
ensureAllStages(e, numStages) ==
    LET n == jlimit(0, kAmountMax, numStages)
    IN  [e EXCEPT !.activeStages = n, !.coeffSize = n, !.netSize = n]

\* Engine::setTopology.
setTopology(e, newAmount, newSeries, newReverse) ==
    LET e1 == [e EXCEPT !.amount = jlimit(kAmountMin, kAmountMax, newAmount),
                        !.series = jlimit(kSeriesMin, kSeriesMax, newSeries),
                        !.reverse = newReverse]
        e2 == ensureAllStages(e1, e1.amount)
    IN  IF e2.reverse
          THEN resetReverseOLA(e2, windowSamplesFromAmount(e2, e2.amount))
          ELSE e2

\* Engine::processBlock returns before touching the buffer when there is nothing
\* to run.
EngineBypassed(e) == e.amount <= 0 \/ e.activeStages <= 0

\* Engine::olaPopStereo, the cursor: it moves only once a frame has been added.
olaPopCursor(e) ==
    IF e.framesReady = 0 THEN e
    ELSE [e EXCEPT !.olaReadPos =
              IF e.olaReadPos + 1 >= e.olaSize THEN 0 ELSE e.olaReadPos + 1]

\* Engine::olaAddFrame, the cursor.
olaAddFrameCursor(e) ==
    [e EXCEPT !.olaWritePos = IF e.olaWritePos + e.hopH >= e.olaSize
                                THEN e.olaWritePos + e.hopH - e.olaSize
                                ELSE e.olaWritePos + e.hopH,
              !.framesReady = 1]

\* The reverse loop adding its frame one sample late.
ReverseSampleCursor_lateHop(e) ==
    LET e1 == [e EXCEPT !.inWritePos =
                  IF e.inWritePos + 1 >= e.winN THEN 0 ELSE e.inWritePos + 1]
        e2 == olaPopCursor(e1)
    IN  IF e2.hopCounter + 1 > e2.hopH
          THEN olaAddFrameCursor([e2 EXCEPT !.hopCounter = 0])
          ELSE [e2 EXCEPT !.hopCounter = e2.hopCounter + 1]

\* One iteration of the reverse loop of Engine::processBlock, the cursors:
\* ring write, pop, hop counter and (every hopH-th sample) one frame.
ReverseSampleCursor(e) ==
    LET e1 == [e EXCEPT !.inWritePos =
                  IF e.inWritePos + 1 >= e.winN THEN 0 ELSE e.inWritePos + 1]
        e2 == olaPopCursor(e1)
    IN  IF e2.hopCounter + 1 >= e2.hopH
          THEN olaAddFrameCursor([e2 EXCEPT !.hopCounter = 0])
          ELSE [e2 EXCEPT !.hopCounter = e2.hopCounter + 1]

RECURSIVE ReverseCursors(_, _)
ReverseCursors(e, n) ==
    IF n <= 0 THEN e ELSE ReverseCursors(ReverseSampleCursor(e), n - 1)

\* Engine::processBlock, the scalar state after a block of numSamples.
EngineProcessBlock(e, numSamples) ==
    IF EngineBypassed(e) THEN e
    ELSE IF ~e.reverse THEN e
    ELSE ReverseCursors(e, numSamples)

(***************************************************************************)
(* Engine: the stage coefficients.                                         *)
(*                                                                         *)
(* A frequency is kept as 10^6 * log2 of its value in Hz, so that the      *)
(* products, quotients and powers of the source are sums, differences and  *)
(* multiples.  A coefficient is kept as the frequency and the rate it is   *)
(* the bilinear-transform coefficient of: a = (1 - t) / (1 + t) with       *)
(* t = tan (pi f / sr) is strictly decreasing in f over [20 Hz, 20 kHz]    *)
(* at the rates of the model, and reaches the +-0.9999 limit there only    *)
(* for 20 kHz at 40 kHz, so two coefficients are equal exactly when these  *)
(* are.  Shape is in hundredths.                                           *)
(***************************************************************************)
\* 10^6 * log2 (hz), rounded.
LogHz(hz) ==
    CASE hz = 10 -> 3321928
      [] hz = 20 -> 4321928
      [] hz = 25 -> 4643856
      [] hz = 1000 -> 9965784
      [] hz = 16000 -> 13965784
      [] hz = 20000 -> 14287712
      [] hz = 30000 -> 14872675

\* floor (x * m / d) for 0 <= m <= d, without leaving 32 bits.
MulDiv(x, m, d) == (x \div d) * m + ((x % d) * m) \div d

\* 10^6 * std::pow (n, 0.50f) for n = a / kAmountMax.
Pow050E6(a) ==
    CASE a <= 0 -> 0
      [] a = 1 -> 62500
      [] a = 2 -> 88388
      [] a >= 256 -> 1000000

\* The stageCoeffA entry 0.0f that assign () fills in.
ZeroCoeff == [freq |-> 0, sr |-> 0]

\* Engine::allpassCoeffFromFreq.
allpassCoeffFromFreq(freqHz, sr) ==
    [freq |-> jlimit(LogHz(20), LogHz(20000), freqHz), sr |-> sr]

\* std::pow (pos, gamma) for pos = i / denom and gamma >= 1, at the two ends
\* of the range (the only positions chains of up to two stages have).
ShapedPos(i, denom) ==
    CASE i = 0 -> 0
      [] i = denom -> 1

\* Engine::updateCoefficientsNow, the frequency of stage i.
StageFreq(numStages, a, freqHz, shape, i) ==
    LET baseSpreadOct == 100000 + (29 * Pow050E6(a)) \div 10
        shapeNorm == jlimit(0, 100, shape)
        spreadOct == MulDiv(baseSpreadOct, 10000 - 99 * shapeNorm, 10000)
        fMin0 == freqHz - spreadOct
        fMax0 == freqHz + spreadOct
        fMinRaw1 == IF fMin0 < LogHz(20) THEN LogHz(20) ELSE fMin0
        fMaxRaw1 == IF fMin0 < LogHz(20) THEN 2 * freqHz - fMinRaw1 ELSE fMax0
        fMaxRaw == IF fMaxRaw1 > LogHz(20000) THEN LogHz(20000) ELSE fMaxRaw1
        fMinRaw == IF fMaxRaw1 > LogHz(20000) THEN 2 * freqHz - fMaxRaw
                   ELSE fMinRaw1
        fMin == jlimit(LogHz(20), LogHz(20000), fMinRaw)
        fMaxLim == jlimit(LogHz(20), LogHz(20000), fMaxRaw)
        \* 144 = 10^6 * log2 (1.0001)
        fMax == IF fMaxLim <= fMin + 144 THEN fMin + 144 ELSE fMaxLim
        ratio == fMax - fMin
        denom == jmax(1, numStages - 1)
        stageFreq0 == jlimit(LogHz(20), LogHz(20000),
                             fMin + ratio * ShapedPos(i, denom))
        \* pinchIntensityGlobal = shapeNorm * 0.95, in 1/10000
        s == 95 * shapeNorm
    IN  IF s > 0
          THEN jlimit(LogHz(20), LogHz(20000),
                      freqHz + MulDiv(stageFreq0 - freqHz, 10000 - s, 10000))
          ELSE stageFreq0

\* Engine::updateCoefficientsNow.
updateCoefficientsNow(e, a, freqHz, shape) ==
    IF e.activeStages <= 0 \/ e.sampleRate <= 0 THEN e
    ELSE [e EXCEPT !.stageCoeffA =
            [i \in 1..e.activeStages |->
               allpassCoeffFromFreq(
                   StageFreq(e.activeStages, a, freqHz, shape, i - 1),
                   e.sampleRate)]]

\* std::numeric_limits<int>::min (): the bin no parameter maps to; and the
\* -1.0f of cachedFreq and cachedShape.
NoBin == 0 - 2147483647 - 1
NoFreq == 0 - 1
NoShape == 0 - 100

\* A default-constructed Engine, its coefficient side.
CoefEngineDefault ==
    [sampleRate |-> 0, amount |-> 0, activeStages |-> 0, stageCoeffA |-> << >>,
     cachedFreq |-> NoFreq, cachedShape |-> NoShape,
     cachedFreqBin |-> NoBin, cachedShapeBin |-> NoBin]

\* Engine::init, its coefficient side.
CoefInit(e, hz) ==
    IF hz <= 0 THEN e
    ELSE [e EXCEPT !.sampleRate = hz, !.amount = 0, !.activeStages = 0,
                   !.stageCoeffA = [i \in 1..kAmountMax |-> ZeroCoeff],
                   !.cachedFreq = NoFreq, !.cachedShape = NoShape,
                   !.cachedFreqBin = NoBin, !.cachedShapeBin = NoBin]

\* Engine::ensureAllStages, its coefficient side.
CoefEnsureAllStages(e, numStages) ==
    LET n == jlimit(0, kAmountMax, numStages)
    IN  [e EXCEPT !.activeStages = n,
                  !.stageCoeffA = IF Len(e.stageCoeffA) # n
                                    THEN [i \in 1..n |-> ZeroCoeff]
                                    ELSE e.stageCoeffA]

\* Engine::setTopology, its coefficient side.
CoefSetTopology(e, newAmount, initFreq, initShape) ==
    LET e1 == [e EXCEPT !.amount = jlimit(kAmountMin, kAmountMax, newAmount)]
        e2 == CoefEnsureAllStages(e1, e1.amount)
        e3 == updateCoefficientsNow(e2, e2.amount, initFreq, initShape)
    IN  [e3 EXCEPT !.cachedFreq = initFreq, !.cachedShape = initShape,
                   !.cachedFreqBin = NoBin, !.cachedShapeBin = NoBin]

\* Engine::processBlock comparing the frequency bin only.
CoefProcessBlock_freqOnly(e, freqNow, shapeNow) ==
    IF e.amount <= 0 \/ e.activeStages <= 0 THEN e
    ELSE LET safeFreq == jlimit(LogHz(20), LogHz(20000), freqNow)
             safeShape == jlimit(0, 100, shapeNow)
             freqBin == RoundDiv(3 * (safeFreq - LogHz(20)), 2500)
             shapeBin == 10 * safeShape
         IN  IF freqBin # e.cachedFreqBin
               THEN [updateCoefficientsNow(e, e.amount, safeFreq, safeShape)
                       EXCEPT !.cachedFreq = safeFreq, !.cachedShape = safeShape,
                              !.cachedFreqBin = freqBin,
                              !.cachedShapeBin = shapeBin]
               ELSE e

\* Engine::processBlock, the coefficient update at its head.
CoefProcessBlock(e, freqNow, shapeNow) ==
    IF e.amount <= 0 \/ e.activeStages <= 0 THEN e
    ELSE LET safeFreq == jlimit(LogHz(20), LogHz(20000), freqNow)
             safeShape == jlimit(0, 100, shapeNow)
             \* lround (1200 * log2 (safeFreq / 20))
             freqBin == RoundDiv(3 * (safeFreq - LogHz(20)), 2500)
             shapeBin == 10 * safeShape
         IN  IF freqBin # e.cachedFreqBin \/ shapeBin # e.cachedShapeBin
               THEN [updateCoefficientsNow(e, e.amount, safeFreq, safeShape)
                       EXCEPT !.cachedFreq = safeFreq, !.cachedShape = safeShape,
                              !.cachedFreqBin = freqBin,
                              !.cachedShapeBin = shapeBin]
               ELSE e

(***************************************************************************)
(* Allpass1 and a chain of stages.                                         *)
(*                                                                         *)
(* Coefficients are in quarters and samples are whole multiples of         *)
(* 1 / ApScale, so the arithmetic of process () is exact: every stage and  *)
(* sample divides the smallest representable step by at most 4.            *)
(***************************************************************************)
\* Samples one chain is fed after a reset.
MaxApSteps == 3

RECURSIVE Pow4(_)
Pow4(k) == IF k <= 0 THEN 1 ELSE 4 * Pow4(k - 1)

\* The value 1.0 of a sample.
ApScale == Pow4(MaxApSteps)

\* Allpass1::process with the input term added instead of subtracted.
Allpass1Process_plusInput(s, a, x) ==
    LET y == (a * x + 4 * s.x1 + a * s.y1) \div 4
    IN  [st |-> [x1 |-> x, y1 |-> y], y |-> y]

\* Allpass1::process: y = -a x + x1 + a y1 (a in quarters).
Allpass1Process(s, a, x) ==
    LET y == (0 - a * x + 4 * s.x1 + a * s.y1) \div 4
    IN  [st |-> [x1 |-> x, y1 |-> y], y |-> y]

\* Allpass1 after reset ().
Allpass1Reset == [x1 |-> 0, y1 |-> 0]

\* PROCESS_CHAIN_MONO: the sample goes through the stages in order.
RECURSIVE ProcessChain(_, _, _, _)
ProcessChain(sts, as, x, i) ==
    IF i > Len(as) THEN [sts |-> sts, y |-> x]
    ELSE LET r == Allpass1Process(sts[i], as[i], x)
         IN  ProcessChain([sts EXCEPT ![i] = r.st], as, r.y, i + 1)

\* No stages; ein and eout are the sums of the squares of the samples fed to
\* and returned by the chain since its reset.
ChainDefault == [a |-> << >>, st |-> << >>, n |-> 0, ein |-> 0, eout |-> 0]

(***************************************************************************)
(* juce::SmoothedValue<float, Linear> (amountSmoothed), values in tenths.  *)
(***************************************************************************)
SmoothedDefault == [cur |-> 0, target |-> 0, step |-> 0, countdown |-> 0, steps |-> 0]

\* setCurrentAndTargetValue.
SmoothedSetCurrentAndTarget(s, v) ==
    [s EXCEPT !.cur = v, !.target = v, !.countdown = 0]

\* reset (sampleRate, rampLengthInSeconds) with the ramp given in milliseconds:
\* stepsToTarget = floor (ramp * sampleRate), the value snaps to its target.
SmoothedReset(s, hz, rampMs) ==
    SmoothedSetCurrentAndTarget([s EXCEPT !.steps = (rampMs * hz) \div 1000],
                                s.target)

\* setTargetValue.
SmoothedSetTarget(s, v) ==
    IF v = s.target THEN s
    ELSE IF s.steps <= 0 THEN SmoothedSetCurrentAndTarget(s, v)
    ELSE [s EXCEPT !.target = v, !.countdown = s.steps,
                   !.step = (v - s.cur) \div s.steps]

\* skip (numSamples).
SmoothedSkip(s, n) ==
    IF n >= s.countdown THEN SmoothedSetCurrentAndTarget(s, s.target)
    ELSE [s EXCEPT !.cur = s.cur + s.step * n, !.countdown = s.countdown - n]

(***************************************************************************)
(* DisperserAudioProcessor: the crossfade controller.                      *)
(***************************************************************************)
\* The processor after construction (member initialisers of the class).
ProcessorDefault ==
    [currentSampleRate |-> 0,
     amountSmoothed |-> SmoothedDefault,
     engA |-> EngineDefault, engB |-> EngineDefault,
     inTransition |-> FALSE, transitionSamples |-> 0, transitionPos |-> 0,
     hasPendingTopology |-> FALSE,
     pendingAmount |-> 0, pendingSeries |-> 1, pendingReverse |-> FALSE,
     tbChannels |-> 0, tbSamples |-> 0,
     cachedAmountKey |-> -1, cachedSeriesKey |-> -1, cachedReverseKey |-> FALSE]

\* prepareToPlay that takes the amount and series parameters as they come.
prepareToPlay_noClamp(q, sampleRate, amountParam, seriesParam, reverseParam) ==
    LET safeSampleRate == sanitizeSampleRate(sampleRate)
        sm == SmoothedSetCurrentAndTarget(
                  SmoothedReset(q.amountSmoothed, safeSampleRate, 50),
                  10 * amountParam)
        amount == RoundDiv(sm.cur, 10)
        series == seriesParam
    IN  IF safeSampleRate <= 0 THEN q
        ELSE [q EXCEPT
                !.currentSampleRate = safeSampleRate,
                !.amountSmoothed = sm,
                !.engA = setTopology(EngineInit(q.engA, safeSampleRate),
                                     amount, series, reverseParam),
                !.engB = EngineInit(q.engB, safeSampleRate),
                !.cachedAmountKey = amount,
                !.cachedSeriesKey = series,
                !.cachedReverseKey = reverseParam,
                !.inTransition = FALSE,
                !.transitionSamples =
                    jlimit(kMinTransitionSamples, kMaxSafeTransitionSamples,
                           RoundDiv(50 * safeSampleRate, 1000)),
                !.transitionPos = 0]

\* DisperserAudioProcessor::prepareToPlay; the parameters are read as they are
\* at the call (amount in whole stages, series, reverse).
prepareToPlay(q, sampleRate, amountParam, seriesParam, reverseParam) ==
    LET safeSampleRate == sanitizeSampleRate(sampleRate)
        sm == SmoothedSetCurrentAndTarget(
                  SmoothedReset(q.amountSmoothed, safeSampleRate, 50),
                  10 * amountParam)
        amount == jlimit(kAmountMin, kAmountMax, RoundDiv(sm.cur, 10))
        series == jlimit(kSeriesMin, kSeriesMax, seriesParam)
    IN  IF safeSampleRate <= 0 THEN q
        ELSE [q EXCEPT
                !.currentSampleRate = safeSampleRate,
                !.amountSmoothed = sm,
                !.engA = setTopology(EngineInit(q.engA, safeSampleRate),
                                     amount, series, reverseParam),
                !.engB = EngineInit(q.engB, safeSampleRate),
                !.cachedAmountKey = amount,
                !.cachedSeriesKey = series,
                !.cachedReverseKey = reverseParam,
                !.inTransition = FALSE,
                !.transitionSamples =
                    jlimit(kMinTransitionSamples, kMaxSafeTransitionSamples,
                           RoundDiv(50 * safeSampleRate, 1000)),
                !.transitionPos = 0]

\* startTransitionIfNeeded that compares the stage and chain counts only.
startTransitionIfNeeded_noReverseKey(q, amountArg, seriesArg, newReverse) ==
    LET newAmount == jlimit(kAmountMin, kAmountMax, amountArg)
        newSeries == jlimit(kSeriesMin, kSeriesMax, seriesArg)
        topoChanged == newAmount # q.cachedAmountKey \/ newSeries # q.cachedSeriesKey
    IN  IF ~topoChanged THEN q
        ELSE IF q.inTransition
          THEN [q EXCEPT !.hasPendingTopology = TRUE, !.pendingAmount = newAmount,
                         !.pendingSeries = newSeries, !.pendingReverse = newReverse,
                         !.cachedAmountKey = newAmount, !.cachedSeriesKey = newSeries,
                         !.cachedReverseKey = newReverse]
          ELSE [q EXCEPT !.engB = setTopology(q.engB, newAmount, newSeries, newReverse),
                         !.inTransition = TRUE, !.transitionPos = 0,
                         !.cachedAmountKey = newAmount, !.cachedSeriesKey = newSeries,
                         !.cachedReverseKey = newReverse]

\* startTransitionIfNeeded that restarts the ramp in flight on a new request.
startTransitionIfNeeded_restart(q, amountArg, seriesArg, newReverse) ==
    LET newAmount == jlimit(kAmountMin, kAmountMax, amountArg)
        newSeries == jlimit(kSeriesMin, kSeriesMax, seriesArg)
        topoChanged == newAmount # q.cachedAmountKey \/ newSeries # q.cachedSeriesKey
                       \/ newReverse # q.cachedReverseKey
    IN  IF ~topoChanged THEN q
        ELSE [q EXCEPT !.engB = setTopology(q.engB, newAmount, newSeries, newReverse),
                       !.inTransition = TRUE, !.transitionPos = 0,
                       !.cachedAmountKey = newAmount, !.cachedSeriesKey = newSeries,
                       !.cachedReverseKey = newReverse]

\* DisperserAudioProcessor::startTransitionIfNeeded.
startTransitionIfNeeded(q, amountArg, seriesArg, newReverse) ==
    LET newAmount == jlimit(kAmountMin, kAmountMax, amountArg)
        newSeries == jlimit(kSeriesMin, kSeriesMax, seriesArg)
        topoChanged == \/ newAmount # q.cachedAmountKey
                       \/ newSeries # q.cachedSeriesKey
                       \/ newReverse # q.cachedReverseKey
    IN  IF ~topoChanged THEN q
        ELSE IF q.inTransition
          THEN [q EXCEPT !.hasPendingTopology = TRUE,
                         !.pendingAmount = newAmount,
                         !.pendingSeries = newSeries,
                         !.pendingReverse = newReverse,
                         !.cachedAmountKey = newAmount,
                         !.cachedSeriesKey = newSeries,
                         !.cachedReverseKey = newReverse]
          ELSE [q EXCEPT !.engB = setTopology(q.engB, newAmount, newSeries, newReverse),
                         !.inTransition = TRUE,
                         !.transitionPos = 0,
                         !.cachedAmountKey = newAmount,
                         !.cachedSeriesKey = newSeries,
                         !.cachedReverseKey = newReverse]

\* processBlock, the stage count asked for in this block: the smoothed amount
\* at mid-block (c20, in twentieths of a stage), rounded, and held at the
\* cached key while within 0.60 of it.
AmountNow(q, c20) ==
    LET amountNowRounded == jlimit(kAmountMin, kAmountMax, RoundDiv(c20, 20))
    IN  IF /\ q.cachedAmountKey >= 0
           /\ c20 > 20 * q.cachedAmountKey - 12
           /\ c20 < 20 * q.cachedAmountKey + 12
          THEN q.cachedAmountKey
          ELSE amountNowRounded

\* processBlock up to and including the call of startTransitionIfNeeded:
\* the processor, and the locals the rest of the call uses.
ProcessBlockHead(q, numSamples, channels, amountP, seriesP, reverse, invPol) ==
    LET s1 == SmoothedSetTarget(q.amountSmoothed, 10 * amountP)
        s2 == SmoothedSkip(s1, numSamples)
        amountNow == AmountNow(q, s1.cur + s2.cur)
        series == jlimit(kSeriesMin, kSeriesMax, seriesP)
        q1 == [q EXCEPT !.amountSmoothed = s2]
    IN  [proc |-> startTransitionIfNeeded(q1, amountNow, series, reverse),
         loc |-> [numSamples |-> numSamples, channels |-> channels,
                  amountNow |-> amountNow, series |-> series,
                  reverse |-> reverse,
                  outputGain |-> IF invPol THEN -1 ELSE 1]]

\* The gain an engine applies to what it writes: Engine::processBlock returns
\* early (buffer untouched, so gain 1) when bypassed, else every sample it
\* writes is multiplied by outputGain.
EngineOutputGain(e, outputGain) == IF EngineBypassed(e) THEN 1 ELSE outputGain

\* One output sample of processBlock as a weighted sum (wa * ga * A + wb * gb * B)
\* / den, where A and B are what engA and engB produce at unit gain for this
\* sample position and ga, gb are the gains the engines applied.
StableSample(ga) ==
    [kind |-> "stable", den |-> 1, wa |-> 1, wb |-> 0, ga |-> ga, gb |-> 1]
RampSample(t, den, ga, gb) ==
    [kind |-> "ramp", den |-> den, wa |-> den - t, wb |-> t, ga |-> ga, gb |-> gb]
NewSample(gb) ==
    [kind |-> "new", den |-> 1, wa |-> 0, wb |-> 1, ga |-> 1, gb |-> gb]

\* processBlock, the blend loops: the first rampSamples samples are
\* a * A + t * B with t = transitionPos / safeTransitionSamples and a = 1 - t,
\* transitionPos advancing by one per sample; the rest of the block is B.
BlendBlock(pos, safeTransitionSamples, numSamples, ga, gb) ==
    LET remainingRampSamples == jmax(0, safeTransitionSamples - pos)
        rampSamples == jmin(numSamples, remainingRampSamples)
    IN  [samples |-> [n \in 1..numSamples |->
                         IF n <= rampSamples
                           THEN RampSample(pos + (n - 1), safeTransitionSamples, ga, gb)
                           ELSE NewSample(gb)],
         transitionPos |-> pos + rampSamples]

\* The end of a blended block without the restart for a pending request.
CompleteTransition_dropPending(q, safeTransitionSamples) ==
    IF q.transitionPos < safeTransitionSamples THEN q
    ELSE [q EXCEPT !.engA = q.engB, !.engB = q.engA, !.inTransition = FALSE,
                   !.transitionPos = 0]

\* processBlock, the end of a block that was blended: once the ramp is over
\* the engines swap and a pending request starts the next transition.
CompleteTransition(q, safeTransitionSamples) ==
    IF q.transitionPos < safeTransitionSamples THEN q
    ELSE LET q1 == [q EXCEPT !.engA = q.engB, !.engB = q.engA,
                             !.inTransition = FALSE, !.transitionPos = 0]
         IN  IF ~q1.hasPendingTopology THEN q1
             ELSE [q1 EXCEPT !.hasPendingTopology = FALSE,
                             !.engB = setTopology(q1.engB, q1.pendingAmount,
                                                  q1.pendingSeries, q1.pendingReverse),
                             !.inTransition = TRUE,
                             !.transitionPos = 0]

\* processBlock after startTransitionIfNeeded, in the Stable state: the active
\* engine takes the requested topology fields and processes the buffer.
ProcessStable(q, loc) ==
    LET eA == [q.engA EXCEPT !.amount = loc.amountNow,
                             !.series = jlimit(kSeriesMin, kSeriesMax, loc.series),
                             !.reverse = loc.reverse]
    IN  [proc |-> [q EXCEPT !.engA = EngineProcessBlock(eA, loc.numSamples)],
         samples |-> [n \in 1..loc.numSamples |->
                         StableSample(EngineOutputGain(eA, loc.outputGain))]]

\* processBlock after startTransitionIfNeeded, while a transition is in flight.
ProcessTransition(q, loc) ==
    LET resize == q.tbChannels # loc.channels \/ q.tbSamples # loc.numSamples
        safeTransitionSamples == jmax(1, q.transitionSamples)
        b == BlendBlock(q.transitionPos, safeTransitionSamples, loc.numSamples,
                        EngineOutputGain(q.engA, loc.outputGain),
                        EngineOutputGain(q.engB, loc.outputGain))
        q1 == [q EXCEPT !.tbChannels = IF resize THEN loc.channels ELSE @,
                        !.tbSamples = IF resize THEN loc.numSamples ELSE @,
                        !.engA = EngineProcessBlock(q.engA, loc.numSamples),
                        !.engB = EngineProcessBlock(q.engB, loc.numSamples),
                        !.transitionPos = b.transitionPos]
    IN  [proc |-> CompleteTransition(q1, safeTransitionSamples),
         samples |-> b.samples]

\* processBlock from the test of inTransition to its end.
ProcessBlockBody(q, loc) ==
    IF ~q.inTransition THEN ProcessStable(q, loc) ELSE ProcessTransition(q, loc)

(***************************************************************************)
(* State.                                                                  *)
(*   p     the DisperserAudioProcessor object (controller fields, engA,    *)
(*         engB with their scalar fields and buffer sizes)                 *)
(*   pc    where the audio thread is: "idle" between calls, "run" inside   *)
(*         processBlock just after startTransitionIfNeeded returned        *)
(*   loc   the locals of the processBlock call in progress                 *)
(*   out   the samples written by the last completed processBlock call     *)
(*   res   what the last completed processBlock call did with the ramp     *)
(*   rampSoFar, capturedInRamp, lastCaptured                               *)
(*         history of the transition in flight: samples blended so far,    *)
(*         whether a request was captured during it, and the last one      *)
(*   lat   history of one captured request, for the latency bound          *)
(*   oe, ob, now, olog                                                     *)
(*         a single Engine with the contents of its buffers, the number    *)
(*         of samples it has processed since setTopology, and its output   *)
(*   co    a single Engine with its stage coefficients                     *)
(*   ap    one chain of all-pass stages and the energy that went through   *)
(*   du    the two engines with the contents of their buffers, the host    *)
(*         buffer and transitionBufferB, for the blocks of a transition    *)
(*   rg    a reverse engine's overlap-add ring with every frame            *)
(*         contribution told apart, and the contributions emitted so far   *)
(*   host  the parameter values of the host once they have stopped         *)
(*         changing                                                        *)
(*   nw    a forward Engine with the stages of its chains, the samples     *)
(*         processed since setTopology and the last block's output         *)
(*   cb    the last operation on the engine co and the control values      *)
(*         of its last block                                               *)
(***************************************************************************)
VARIABLES p, pc, loc, out, res, rampSoFar, capturedInRamp, lastCaptured,
          lat, oe, ob, now, olog, co, ap, du, rg, host, nw, cb

ctlVars == <<p, pc, loc, out, res, rampSoFar, capturedInRamp, lastCaptured>>
olaVars == <<oe, ob, now, olog>>
vars == <<p, pc, loc, out, res, rampSoFar, capturedInRamp, lastCaptured,
          lat, oe, ob, now, olog, co, ap, du, rg, host, nw, cb>>

\* The buffers of a default-constructed Engine: all vectors empty.
BuffersDefault == [ring |-> << >>, ola |-> << >>, frame |-> << >>, stage |-> {}]

\* The host while its parameters may still change.
HostChanging == [settled |-> FALSE, amount |-> 0, series |-> 1, reverse |-> FALSE]

\* The record of an operation on the engine co that is no block; for a
\* block it holds freqNow and shapeNow and the bins cached before it.
CoefNoBlock(op) ==
    [op |-> op, freq |-> 0, shape |-> 0, wasFreqBin |-> 0, wasShapeBin |-> 0]

\* StageState {}: both Allpass1 of a stage as constructed.
StageDefault ==
    [left |-> [a |-> 0, x1 |-> {}, y1 |-> {}], right |-> [a |-> 0, x1 |-> {}, y1 |-> {}]]

\* A forward engine as constructed, its chains empty; key is the stage count
\* last asked for, c20 the continuous amount it came from, last the last
\* operation, kept whether setTopology found state in chains it kept.
NetDefault ==
    [prepared |-> FALSE, amount |-> 0, activeStages |-> 0, series |-> 1,
     stageCoeffA |-> << >>, nets |-> [c \in 1..kSeriesMax |-> << >>],
     key |-> 0 - 1, c20 |-> 0, channels |-> 2, n |-> 0, out |-> << >>,
     last |-> "none", kept |-> FALSE]

\* An engine as constructed and its overlap-add ring, each cell the set of
\* frame contributions <<frame, index>> summed into it; frames counts the
\* olaAddFrame calls, emitted lists the cells popped, atAdd holds the cursors
\* at the last olaAddFrame call, n counts the samples since the reset.
RingDefault ==
    [e |-> EngineDefault, ola |-> << >>, frames |-> 0, emitted |-> << >>,
     atAdd |-> [olaReadPos |-> 0, olaWritePos |-> 0], n |-> 0]

\* Both engines as constructed, with empty buffers; tb is transitionBufferB,
\* buffer the host buffer as the last call left it, fedA and fedB the
\* contents of the buffer each engine was handed in the last call, outA and
\* outB what each left in it, t the number of samples processed, n the size
\* of the last block.
DualDefault ==
    [eA |-> EngineDefault, bA |-> BuffersDefault,
     eB |-> EngineDefault, bB |-> BuffersDefault,
     tb |-> << >>, buffer |-> << >>, fedA |-> << >>, fedB |-> << >>,
     outA |-> << >>, outB |-> << >>, t |-> 0, n |-> 0, inTransition |-> FALSE]

LocNone == [numSamples |-> 0, channels |-> 0, amountNow |-> 0, series |-> 1,
            reverse |-> FALSE, outputGain |-> 1]
ResNone == [started |-> FALSE, capturedNow |-> FALSE, blended |-> FALSE,
            base |-> 0, count |-> 0, completed |-> FALSE, captured |-> FALSE]
TopoNone == [amount |-> 0, series |-> 1, reverse |-> FALSE]
LatNone == [state |-> "none", topo |-> TopoNone, age |-> 0, maxBlock |-> 0]

\* The topology an engine is set to, and the cached and pending keys.
TopologyOf(e) == [amount |-> e.amount, series |-> e.series, reverse |-> e.reverse]
CachedKey(q) == [amount |-> q.cachedAmountKey, series |-> q.cachedSeriesKey,
                 reverse |-> q.cachedReverseKey]
PendingSlot(q) == [amount |-> q.pendingAmount, series |-> q.pendingSeries,
                   reverse |-> q.pendingReverse]
\* The clamped topology a processBlock call asks for.
RequestOf(l) == [amount |-> l.amountNow, series |-> l.series, reverse |-> l.reverse]

CtlInit ==
    /\ p = ProcessorDefault
    /\ pc = "idle"
    /\ loc = LocNone
    /\ out = << >>
    /\ res = ResNone
    /\ rampSoFar = 0
    /\ capturedInRamp = FALSE
    /\ lastCaptured = TopoNone

\* The host calls prepareToPlay (never while processBlock is running).
PrepareToPlay ==
    /\ pc = "idle"
    /\ \E sr \in HostSampleRates, a \in HostAmounts, s \in HostSeries, r \in BOOLEAN :
         /\ p' = prepareToPlay(p, sr, a, s, r)
         /\ IF sanitizeSampleRate(sr) > 0
              THEN rampSoFar' = 0 /\ capturedInRamp' = FALSE
                   /\ lastCaptured' = TopoNone
              ELSE UNCHANGED <<rampSoFar, capturedInRamp, lastCaptured>>
    /\ out' = << >>
    /\ res' = ResNone
    /\ UNCHANGED <<pc, loc>>

\* processBlock, first part: an empty block returns at once; otherwise the
\* parameters are read, the amount is smoothed and startTransitionIfNeeded runs.
BeginBlock ==
    /\ pc = "idle"
    /\ \E n \in BlockSizes, ch \in ChannelCounts, a \in HostAmounts,
          s \in HostSeries, r \in BOOLEAN, inv \in BOOLEAN :
         IF n <= 0 THEN UNCHANGED ctlVars
         ELSE \E h \in {ProcessBlockHead(p, n, ch, a, s, r, inv)} :
              LET captured == p.inTransition /\ h.proc.hasPendingTopology
                              /\ RequestOf(h.loc) # CachedKey(p)
                  started == ~p.inTransition /\ h.proc.inTransition
              IN  /\ p' = h.proc
                  /\ loc' = h.loc
                  /\ pc' = "run"
                  /\ out' = << >>
                  /\ res' = [ResNone EXCEPT !.started = started,
                                            !.capturedNow = captured]
                  /\ rampSoFar' = IF started THEN 0 ELSE rampSoFar
                  /\ capturedInRamp' = IF started THEN FALSE
                                       ELSE IF captured THEN TRUE ELSE capturedInRamp
                  /\ lastCaptured' = IF started THEN TopoNone
                                     ELSE IF captured THEN RequestOf(h.loc)
                                     ELSE lastCaptured

\* processBlock, second part: the engines process, the outputs are blended
\* and a finished ramp swaps the engines.
FinishBlock ==
    /\ pc = "run"
    /\ \E b \in {ProcessBlockBody(p, loc)} :
       LET ramped == Cardinality({n \in DOMAIN b.samples : b.samples[n].kind = "ramp"})
           completed == p.inTransition
                        /\ p.transitionPos + ramped >= jmax(1, p.transitionSamples)
       IN  /\ p' = b.proc
           /\ out' = b.samples
           /\ res' = [res EXCEPT !.blended = p.inTransition, !.base = rampSoFar,
                                  !.count = rampSoFar + ramped,
                                  !.completed = completed,
                                  !.captured = completed /\ capturedInRamp]
           /\ rampSoFar' = IF completed THEN 0 ELSE rampSoFar + ramped
           /\ capturedInRamp' = IF completed THEN FALSE ELSE capturedInRamp
           /\ lastCaptured' = IF completed THEN TopoNone ELSE lastCaptured
    /\ pc' = "idle"
    /\ loc' = LocNone

CtlNext == PrepareToPlay \/ BeginBlock \/ FinishBlock

Init ==
    /\ CtlInit
    /\ lat = LatNone
    /\ oe = EngineDefault /\ ob = BuffersDefault /\ now = 0 /\ olog = << >>
    /\ co = CoefEngineDefault
    /\ ap = ChainDefault
    /\ du = DualDefault
    /\ rg = RingDefault
    /\ host = HostChanging
    /\ nw = NetDefault
    /\ cb = CoefNoBlock("none")

Next ==
    \/ PrepareToPlay /\ UNCHANGED <<lat, oe, ob, now, olog, co, ap, du, rg, host, nw, cb>>
    \/ BeginBlock /\ UNCHANGED <<lat, oe, ob, now, olog, co, ap, du, rg, host, nw, cb>>
    \/ FinishBlock /\ UNCHANGED <<lat, oe, ob, now, olog, co, ap, du, rg, host, nw, cb>>

Spec == Init /\ [][Next]_vars

TypeOK ==
    /\ pc \in {"idle", "run"}
    /\ p.inTransition \in BOOLEAN
    /\ p.transitionPos \in Nat

(***************************************************************************)
(* The same program, with the history of one request that arrived while a  *)
(* ramp was in progress: the samples processed since the block in which it *)
(* arrived, and the largest block delivered since.                         *)
(***************************************************************************)
\* A request counts as served once the controller is Stable with the active
\* engine set to it.
Served(q, topo) == ~q.inTransition /\ TopologyOf(q.engA) = topo

LatPrepareToPlay ==
    /\ PrepareToPlay
    /\ lat' = IF p' = p THEN lat ELSE LatNone
    /\ UNCHANGED <<olaVars, co, ap, du, rg, host, nw, cb>>

LatBeginBlock ==
    /\ BeginBlock
    /\ lat' = IF pc' = "idle" THEN lat
              ELSE IF p.inTransition /\ CachedKey(p') # CachedKey(p)
                THEN [state |-> "waiting", topo |-> CachedKey(p'), age |-> 0,
                      maxBlock |-> 0]
              ELSE IF lat.state = "served" THEN LatNone
              ELSE lat
    /\ UNCHANGED <<olaVars, co, ap, du, rg, host, nw, cb>>

LatFinishBlock ==
    /\ FinishBlock
    /\ lat' = IF lat.state # "waiting" THEN lat
              ELSE [lat EXCEPT !.age = @ + loc.numSamples,
                               !.maxBlock = jmax(@, loc.numSamples),
                               !.state = IF Served(p', lat.topo) THEN "served"
                                         ELSE "waiting"]
    /\ UNCHANGED <<olaVars, co, ap, du, rg, host, nw, cb>>

LatNext == LatPrepareToPlay \/ LatBeginBlock \/ LatFinishBlock

SpecLat == Init /\ [][LatNext]_vars

(***************************************************************************)
(* One Engine with the contents of its reverse overlap-add buffers.        *)
(*                                                                         *)
(* A value is [org, sup]: org is the time (in samples since setTopology)   *)
(* of the input sample the value was copied or filtered from, NoOrg for a  *)
(* constant 0.0f; sup is the set of input times the value may depend on.   *)
(* A value with empty sup is exactly 0.0f.  Multiplying by a window        *)
(* coefficient or a gain keeps org and sup.  A cell of the overlap-add     *)
(* ring holds a sum, kept as the set of values added into it; the empty    *)
(* set is 0.0f.                                                            *)
(***************************************************************************)
\* Samples an engine processes after setTopology in the model.
OlaHorizon == 13
\* Block sizes for the single-engine runs.
OlaBlockSizes == {1, 4}
\* Sample rates for Engine::init; the largest window is a quarter second.
OlaSampleRates == {8, 12, 16, 20}
NoOrg == 0 - 1

ZeroValue == [org |-> NoOrg, sup |-> {}]
InputValue(t) == [org |-> t, sup |-> {t}]
IsZero(cell) == \A v \in cell : v.sup = {}

\* resetReverseOLA that keeps an overlap-add ring of the right size as it is.
resetReverseOLAContents_keepOla(e, b) ==
    [b EXCEPT !.ring = [i \in 1..e.winN |-> ZeroValue],
              !.ola = IF Len(b.ola) = e.olaSize THEN b.ola
                      ELSE [i \in 1..e.olaSize |-> {}],
              !.frame = [i \in 1..e.winN |-> ZeroValue]]

\* Engine::resetReverseOLA, the contents: every buffer is assigned zeros.
resetReverseOLAContents(e, b) ==
    [b EXCEPT !.ring = [i \in 1..e.winN |-> ZeroValue],
              !.ola = [i \in 1..e.olaSize |-> {}],
              !.frame = [i \in 1..e.winN |-> ZeroValue]]

\* NetworkInstance::ensureStages: a chain that already has n stages is left
\* alone, state included; otherwise it gets n fresh stages.
ensureStagesContents(b, oldSize, n) ==
    IF oldSize = n THEN b ELSE [b EXCEPT !.stage = {}]

\* Engine::init, the contents (e is the engine before the call).
EngineInitContents(e, b, hz) ==
    IF hz <= 0 THEN b
    ELSE resetReverseOLAContents(EngineInit(e, hz),
                                 ensureStagesContents(b, e.netSize, kAmountMax))

\* Engine::setTopology, the contents: resetAllNetworks clears the state of the
\* active stages, and a reverse engine gets fresh rings.
setTopologyContents(e, b, newAmount, newSeries, newReverse) ==
    LET e1 == setTopology(e, newAmount, newSeries, newReverse)
        b1 == [b EXCEPT !.stage = {}]
    IN  IF e1.reverse THEN resetReverseOLAContents(e1, b1) ELSE b1

\* grabLastNToFrame that reads the ring from its first cell, wherever the
\* write cursor is.
grabLastNToFrame_fromStart(e, b) ==
    [b EXCEPT !.frame = [i \in 1..e.winN |-> b.ring[i]]]

\* Engine::grabLastNToFrame: the last winN ring samples, oldest first, each
\* times its window coefficient.
grabLastNToFrame(e, b) ==
    LET firstLen == e.winN - e.inWritePos
    IN  [b EXCEPT !.frame = [i \in 1..e.winN |->
                    IF i - 1 < firstLen THEN b.ring[e.inWritePos + i]
                    ELSE b.ring[i - firstLen]]]

\* Engine::processFrameReverseIR: the frame goes through the all-pass chains
\* from its last element to its first, in place; the stage state carries over.
RECURSIVE ReverseIR(_, _, _)
ReverseIR(frame, stage, ri) ==
    IF ri < 1 THEN [frame |-> frame, stage |-> stage]
    ELSE LET st == stage \cup frame[ri].sup
         IN  ReverseIR([frame EXCEPT ![ri] = [org |-> frame[ri].org, sup |-> st]],
                       st, ri - 1)

processFrameReverseIR(e, b) ==
    IF e.activeStages <= 0 THEN b
    ELSE LET r == ReverseIR(b.frame, b.stage, e.winN)
         IN  [b EXCEPT !.frame = r.frame, !.stage = r.stage]

\* Engine::olaAddFrame, the contents: frame[i] times its window coefficient is
\* added at olaWritePos + i, wrapping.
olaAddFrame(e, b) ==
    LET firstLen == jmin(e.winN, e.olaSize - e.olaWritePos)
        Src(c) == {i \in 1..e.winN :
                     /\ b.frame[i] # ZeroValue
                     /\ c = (IF i - 1 < firstLen THEN e.olaWritePos + i
                             ELSE i - firstLen)}
    IN  [b EXCEPT !.ola = [c \in 1..e.olaSize |->
                    b.ola[c] \cup {b.frame[i] : i \in Src(c)}]]

\* Engine::olaPopStereo: silence until the first frame has been added; after
\* that the cell under the read cursor is returned and cleared.
olaPopStereo(e, b) ==
    IF e.framesReady = 0 THEN [b |-> b, y |-> {}]
    ELSE [b |-> [b EXCEPT !.ola[e.olaReadPos + 1] = {}],
          y |-> b.ola[e.olaReadPos + 1]]

\* One iteration of the reverse loop of Engine::processBlock on input x.
ReverseSample(e, b, x) ==
    LET b1 == [b EXCEPT !.ring[e.inWritePos + 1] = x]
        e1 == [e EXCEPT !.inWritePos =
                  IF e.inWritePos + 1 >= e.winN THEN 0 ELSE e.inWritePos + 1]
        pop == olaPopStereo(e1, b1)
        e2 == olaPopCursor(e1)
        hop == e2.hopCounter + 1 >= e2.hopH
        e3 == [e2 EXCEPT !.hopCounter = 0]
    IN  [e |-> ReverseSampleCursor(e),
         b |-> IF hop THEN olaAddFrame(e3, processFrameReverseIR(e3,
                               grabLastNToFrame(e3, pop.b)))
               ELSE pop.b,
         y |-> pop.y]

\* One iteration of the forward loop: the sample goes through the chains.
ForwardSample(e, b, x) ==
    LET st == b.stage \cup x.sup
    IN  [e |-> e, b |-> [b EXCEPT !.stage = st],
         y |-> {[org |-> x.org, sup |-> st]}]

\* Engine::processBlock on the inputs of times t0 .. t0 + n - 1: the engine, its
\* buffers and the outputs appended to ys.
RECURSIVE EngineProcessSamples(_, _, _, _, _)
EngineProcessSamples(e, b, t0, n, ys) ==
    IF n <= 0 THEN [e |-> e, b |-> b, ys |-> ys]
    ELSE LET r == IF EngineBypassed(e)
                    THEN [e |-> e, b |-> b, y |-> {InputValue(t0)}]
                  ELSE IF e.reverse THEN ReverseSample(e, b, InputValue(t0))
                  ELSE ForwardSample(e, b, InputValue(t0))
         IN  EngineProcessSamples(r.e, r.b, t0 + 1, n - 1, Append(ys, r.y))

OlaEngineInit ==
    /\ \E hz \in OlaSampleRates :
         /\ oe' = EngineInit(oe, hz)
         /\ ob' = EngineInitContents(oe, ob, hz)
    /\ now' = 0
    /\ olog' = << >>
    /\ UNCHANGED <<ctlVars, lat, co, ap, du, rg, host, nw, cb>>

OlaSetTopology ==
    /\ \E a \in HostAmounts \cup {1}, s \in HostSeries, r \in BOOLEAN :
         /\ oe' = setTopology(oe, a, s, r)
         /\ ob' = setTopologyContents(oe, ob, a, s, r)
    /\ now' = 0
    /\ olog' = << >>
    /\ UNCHANGED <<ctlVars, lat, co, ap, du, rg, host, nw, cb>>

OlaProcessBlock ==
    /\ \E n \in OlaBlockSizes :
         /\ now + n <= OlaHorizon
         /\ \E r \in {EngineProcessSamples(oe, ob, now, n, olog)} :
              /\ oe' = r.e
              /\ ob' = r.b
              /\ olog' = r.ys
         /\ now' = now + n
    /\ UNCHANGED <<ctlVars, lat, co, ap, du, rg, host, nw, cb>>

OlaNext == OlaEngineInit \/ OlaSetTopology \/ OlaProcessBlock

SpecOLA == Init /\ [][OlaNext]_vars

(***************************************************************************)
(* Properties of the crossfade controller (specification Spec).            *)
(***************************************************************************)
\* The step from the entry of processBlock to the return of
\* startTransitionIfNeeded, and the step from there to the end of the call.
HeadStep == pc = "idle" /\ pc' = "run"
BodyStep == pc = "run" /\ pc' = "idle"

\* An engine as setTopology leaves it for a topology.
ConfiguredAs(e, topo) ==
    /\ e.amount = topo.amount /\ e.series = topo.series /\ e.reverse = topo.reverse
    /\ e.activeStages = topo.amount /\ e.coeffSize = topo.amount
    /\ e.netSize = topo.amount
    /\ topo.reverse =>
         /\ e.winN = windowSamplesFromAmount(e, topo.amount)
         /\ e.inWritePos = 0 /\ e.hopCounter = 0 /\ e.framesReady = 0
         /\ e.olaReadPos = 0

ClampedTopology(topo) ==
    /\ topo.amount \in kAmountMin..kAmountMax
    /\ topo.series \in kSeriesMin..kSeriesMax

\* C1: in the Stable state a processBlock call whose clamped request differs
\* from the cached key starts a transition in that call: engB is configured to
\* the request, inTransition is set, transitionPos = 0 and the cached key is
\* the request; a request equal to the cached key starts nothing and leaves
\* both engines as they are.
C1_StableRequestStartsTransition ==
    [][(HeadStep /\ ~p.inTransition) =>
         /\ ClampedTopology(RequestOf(loc'))
         /\ IF RequestOf(loc') # CachedKey(p)
              THEN /\ p'.inTransition /\ p'.transitionPos = 0
                   /\ ConfiguredAs(p'.engB, RequestOf(loc'))
                   /\ CachedKey(p') = RequestOf(loc')
                   /\ p'.engA = p.engA
              ELSE /\ ~p'.inTransition
                   /\ CachedKey(p') = CachedKey(p)
                   /\ p'.engA = p.engA /\ p'.engB = p.engB]_vars

\* C1 witness: a prepared, Stable controller has just started a transition to
\* a reverse topology with stages.
C1_Witness ==
    /\ pc = "run" /\ res.started /\ p.currentSampleRate > 0
    /\ p.inTransition /\ p.transitionPos = 0
    /\ p.engB.reverse /\ p.engB.amount = kAmountMax
    /\ TopologyOf(p.engA) # TopologyOf(p.engB)

\* C2: while a transition is in flight a differing request reconfigures no
\* engine and leaves transitionPos alone; it overwrites the pending slot and
\* the cached key only, and the transition in flight stays the only one.
C2_MidTransitionRequestOnlyPending ==
    [][(HeadStep /\ p.inTransition) =>
         /\ p'.engA = p.engA /\ p'.engB = p.engB
         /\ p'.transitionPos = p.transitionPos
         /\ p'.inTransition
         /\ p'.transitionSamples = p.transitionSamples
         /\ IF RequestOf(loc') # CachedKey(p)
              THEN /\ p'.hasPendingTopology
                   /\ PendingSlot(p') = RequestOf(loc')
                   /\ CachedKey(p') = RequestOf(loc')
              ELSE /\ p'.hasPendingTopology = p.hasPendingTopology
                   /\ PendingSlot(p') = PendingSlot(p)
                   /\ CachedKey(p') = CachedKey(p)]_vars

\* C2 witness: a request was captured in the middle of a ramp, and it is not
\* what the standby engine is being faded to.
C2_Witness ==
    /\ pc = "run" /\ res.capturedNow /\ p.inTransition
    /\ p.transitionPos > 0 /\ p.hasPendingTopology
    /\ PendingSlot(p) # TopologyOf(p.engB)

\* C3: when the ramp ends the engines swap in that call; with a request
\* captured during the ramp the standby engine is configured to the last
\* captured request, the pending flag is cleared and a new transition starts
\* at transitionPos = 0; with none captured the controller is Stable.
C3_CompletionSwapsAndRestarts ==
    [][(BodyStep /\ p.inTransition /\ res'.completed) =>
         /\ p'.engA = EngineProcessBlock(p.engB, loc.numSamples)
         /\ p'.transitionPos = 0
         /\ ~p'.hasPendingTopology
         /\ IF capturedInRamp
              THEN p'.inTransition /\ ConfiguredAs(p'.engB, lastCaptured)
              ELSE /\ ~p'.inTransition
                   /\ p'.engB = EngineProcessBlock(p.engA, loc.numSamples)]_vars

\* C4: over one transition exactly transitionSamples samples are blended; the
\* k-th of them, counted across blocks, is (1 - t) * old + t * new with
\* t = k / transitionSamples, and what follows the ramp in the block where it
\* ends is the new engine alone.
C4_RampWeights ==
    (pc = "idle" /\ res.blended) =>
      /\ \A n \in DOMAIN out :
           IF n <= res.count - res.base
             THEN /\ out[n].kind = "ramp"
                  /\ out[n].den = p.transitionSamples
                  /\ out[n].wb = res.base + (n - 1)
                  /\ out[n].wb < p.transitionSamples
                  /\ out[n].wa >= 0 /\ out[n].wb >= 0
                  /\ out[n].wa + out[n].wb = out[n].den
             ELSE out[n].kind = "new" /\ out[n].wa = 0
      /\ res.completed => res.count = p.transitionSamples
      /\ ~res.completed => res.count < p.transitionSamples

\* What a sample is made of: the old and the new engine's signed weights.
SampleCoeffs(x) == <<x.wa * x.ga, x.wb * x.gb, x.den>>
NegatedCoeffs(x) == <<0 - x.wa * x.ga, 0 - x.wb * x.gb, x.den>>

\* C6: in every state the block produced with INV set is the block produced
\* with INV clear times -1, sample for sample.
C6_InvNegatesOutput ==
    [][BodyStep =>
         \A n \in DOMAIN out' :
           SampleCoeffs(out'[n]) =
             NegatedCoeffs(ProcessBlockBody(p,
                 [loc EXCEPT !.outputGain = 0 - loc.outputGain]).samples[n])]_vars

\* The sizes of every buffer the processor owns; the engines as a pair,
\* since a swap moves the buffers without resizing them.
EngineSizes(e) == <<e.coeffSize, e.netSize, e.ringSize, e.olaSize, e.frameSize,
                    e.winSize>>
SameBufferSizes(q, r) ==
    /\ q.tbChannels = r.tbChannels /\ q.tbSamples = r.tbSamples
    /\ \/ /\ EngineSizes(q.engA) = EngineSizes(r.engA)
          /\ EngineSizes(q.engB) = EngineSizes(r.engB)
       \/ /\ EngineSizes(q.engA) = EngineSizes(r.engB)
          /\ EngineSizes(q.engB) = EngineSizes(r.engA)

\* C10: no step of processBlock changes the size of a buffer.
C10_NoResizeInProcessBlock ==
    [][(HeadStep \/ BodyStep) => SameBufferSizes(p, p')]_vars

(***************************************************************************)
(* Latency of a request captured during a ramp (specification SpecLat).    *)
(***************************************************************************)
\* C5 as stated: a request captured during a ramp is served after at most
\* 2 * transitionSamples samples, counted from the block in which it arrived.
C5_TwoRampDurations ==
    lat.state # "none" => lat.age <= 2 * p.transitionSamples

\* C5 amended: the controller moves at block ends only, so each of the two
\* ramps can run over by less than one block: the request is served after
\* fewer than 2 * transitionSamples + 2 * B samples, B the largest block since.
C5_TwoRampDurationsInBlocks ==
    lat.state # "none" => lat.age < 2 * p.transitionSamples + 2 * lat.maxBlock

\* C5 witness: a request captured during a ramp has been served, later than
\* two ramp durations after its block began.
C5_Witness ==
    /\ lat.state = "served" /\ p.currentSampleRate > 0
    /\ Served(p, lat.topo)
    /\ lat.age > 2 * p.transitionSamples

(***************************************************************************)
(* The reverse overlap-add pipeline (specification SpecOLA).               *)
(***************************************************************************)
ReverseRunning == oe.reverse /\ ~EngineBypassed(oe)

\* C7: after setTopology with reverse on and at least one stage, the first
\* winN = windowSamplesFromAmount(stage count) outputs are exactly zero.
C7_FirstWindowSilent ==
    (oe.reverse /\ oe.amount >= 1) =>
      \A t \in 1..Len(olog) :
        t <= windowSamplesFromAmount(oe, oe.amount) => IsZero(olog[t])

\* C7 witness: a reverse engine with a window of three samples or more has
\* put out its silent start and then a sample that depends on the input.
C7_Witness ==
    /\ ReverseRunning /\ oe.winN >= 3
    /\ Len(olog) > oe.winN + oe.hopH
    /\ \A t \in 1..oe.winN : IsZero(olog[t])
    /\ \E t \in 1..Len(olog) : ~IsZero(olog[t])

C9_ZeroStagesStillDelayed ==
    (oe.reverse /\ oe.amount = 0) =>
      \A t \in 1..Len(olog) : \A v \in olog[t] : v.org # t - 1

(***************************************************************************)
(* The processor under a host that sends out-of-range chain counts and     *)
(* buffers without channels (specification SpecHost).  The calls are the   *)
(* same two steps; only the values the host may send differ.               *)
(***************************************************************************)
\* Raw chain counts below and above the legal range.
WideSeries == {0, 5}
\* Channel counts, the degenerate buffer without channels included.
WideChannelCounts == {0, 2}
\* Block sizes: the empty block and a full one.
WideBlockSizes == {0, MaxBlock}

\* Engine::processBlock takes buffer.getWritePointer (0) whatever the channel
\* count and writes through it unless it returns early: with no channels the
\* write goes through a pointer that addresses no channel.
EngineWritesNoChannel(e, channels) == channels <= 0 /\ ~EngineBypassed(e)

\* The engines processBlock runs in this call: engA with the request's
\* amount when Stable, both engines as they are when Transitioning.
WritesNoChannel(q, l) ==
    IF ~q.inTransition
      THEN EngineWritesNoChannel([q.engA EXCEPT !.amount = l.amountNow], l.channels)
      ELSE \/ EngineWritesNoChannel(q.engA, l.channels)
           \/ EngineWritesNoChannel(q.engB, l.channels)

HostPrepareToPlay ==
    /\ pc = "idle"
    /\ \E sr \in HostSampleRates, a \in HostAmounts, s \in WideSeries, r \in BOOLEAN :
         p' = prepareToPlay(p, sr, a, s, r)
    /\ UNCHANGED <<pc, loc, out, res, rampSoFar, capturedInRamp, lastCaptured,
                   lat, oe, ob, now, olog, co, ap, du, rg, host, nw, cb>>

HostBeginBlock ==
    /\ pc = "idle"
    /\ \E n \in WideBlockSizes, ch \in WideChannelCounts, a \in HostAmounts,
          s \in WideSeries, r \in BOOLEAN, inv \in BOOLEAN :
         IF n <= 0 THEN UNCHANGED <<p, pc, loc>>
         ELSE \E h \in {ProcessBlockHead(p, n, ch, a, s, r, inv)} :
                /\ p' = h.proc
                /\ loc' = h.loc
                /\ pc' = "run"
    /\ UNCHANGED <<out, res, rampSoFar, capturedInRamp, lastCaptured,
                   lat, oe, ob, now, olog, co, ap, du, rg, host, nw, cb>>

\* The rest of the call.  A write through a pointer that addresses no channel
\* is undefined: the call may go on as if the write had landed, or the
\* process may stop there.
HostFinishBlock ==
    /\ pc = "run"
    /\ \/ /\ p' = ProcessBlockBody(p, loc).proc
          /\ pc' = "idle"
       \/ /\ WritesNoChannel(p, loc)
          /\ p' = p
          /\ pc' = "crashed"
    /\ loc' = LocNone
    /\ UNCHANGED <<out, res, rampSoFar, capturedInRamp, lastCaptured,
                   lat, oe, ob, now, olog, co, ap, du, rg, host, nw, cb>>

HostNext == HostPrepareToPlay \/ HostBeginBlock \/ HostFinishBlock

SpecHost == Init /\ [][HostNext]_vars

(***************************************************************************)
(* Claims settled under SpecHost.                                          *)
(***************************************************************************)
\* Every stage and chain count the processor holds: both engines, the cached
\* key and the pending slot.
AllTopologiesClamped(q) ==
    /\ ClampedTopology(TopologyOf(q.engA))
    /\ ClampedTopology(TopologyOf(q.engB))
    /\ ClampedTopology(CachedKey(q))
    /\ ClampedTopology(PendingSlot(q))

\* C11: once prepareToPlay has run with a valid rate, the amount of each
\* engine, of the cached key and of the pending slot is in
\* [kAmountMin, kAmountMax] and the series of each is in
\* [kSeriesMin, kSeriesMax], whatever raw values the host sends; and no
\* request is rejected: the request of every processBlock call, clamped, is
\* the cached key when startTransitionIfNeeded has returned.
C11_KeysClamped ==
    [][/\ p'.currentSampleRate > 0 => AllTopologiesClamped(p')
       /\ HeadStep => /\ ClampedTopology(RequestOf(loc'))
                      /\ CachedKey(p') = RequestOf(loc')]_vars

\* A prepared processor in a transition to the lowest legal topology with the
\* highest legal one pending, the host having sent only out-of-range values.
C11_Witness ==
    /\ pc = "run" /\ p.currentSampleRate > 0
    /\ p.inTransition /\ p.hasPendingTopology
    /\ TopologyOf(p.engB).amount = kAmountMin
    /\ PendingSlot(p).amount = kAmountMax /\ PendingSlot(p).series = kSeriesMax
    /\ CachedKey(p) = PendingSlot(p)
    /\ p.engA.series = kSeriesMin

\* C12: a processBlock call whose buffer has zero samples or zero channels is
\* a no-op: through the whole call the smoothed values, the controller state
\* and both engines stay as they were.
C12_EmptyBufferNoOp ==
    [][(\/ HeadStep /\ (loc'.numSamples <= 0 \/ loc'.channels <= 0)
        \/ pc = "run" /\ pc' # "run" /\ (loc.numSamples <= 0 \/ loc.channels <= 0))
       => p' = p]_vars

(***************************************************************************)
(* Claims settled under Spec (continued).                                  *)
(***************************************************************************)
\* C13: a prepareToPlay with a non-finite or non-positive rate leaves the
\* processor not prepared, and a processBlock call on a processor that was
\* never validly prepared skips processing: no transition is started and
\* neither engine is reconfigured or run.
C13_UnpreparedSkipsProcessing ==
    [][(p.currentSampleRate = 0 /\ (HeadStep \/ BodyStep)) =>
          /\ ~p'.inTransition
          /\ p'.engA = p.engA /\ p'.engB = p.engB]_vars

(***************************************************************************)
(* One Engine and its stage coefficients (specification SpecCoef).         *)
(***************************************************************************)
CoefSampleRates == {40000, 44100, 48000}
\* Stage counts: chains of none, one and two stages.
CoefAmounts == {0, 1, 2}
\* Center frequencies, in and out of the legal range.
CoefFreqs == {LogHz(hz) : hz \in {10, 20, 25, 1000, 16000, 20000, 30000}}
\* Shape values in hundredths, in and out of the legal range.
CoefShapes == {0 - 50, 0, 50, 100}

CoefEngineInit ==
    /\ \E hz \in CoefSampleRates : co' = CoefInit(co, hz)
    /\ cb' = CoefNoBlock("init")
    /\ UNCHANGED <<ctlVars, lat, olaVars, ap, du, rg, host, nw>>

CoefEngineSetTopology ==
    /\ \E a \in CoefAmounts, f \in CoefFreqs, sh \in CoefShapes :
         /\ co' = CoefSetTopology(co, a, f, sh)
         /\ cb' = CoefNoBlock("setTopology")
    /\ UNCHANGED <<ctlVars, lat, olaVars, ap, du, rg, host, nw>>

CoefEngineProcessBlock ==
    /\ \E f \in CoefFreqs, sh \in CoefShapes :
         /\ co' = CoefProcessBlock(co, f, sh)
         /\ cb' = [op |-> "processBlock", freq |-> f, shape |-> sh,
                   wasFreqBin |-> co.cachedFreqBin,
                   wasShapeBin |-> co.cachedShapeBin]
    /\ UNCHANGED <<ctlVars, lat, olaVars, ap, du, rg, host, nw>>

CoefNext == CoefEngineInit \/ CoefEngineSetTopology \/ CoefEngineProcessBlock

SpecCoef == Init /\ [][CoefNext]_vars

\* C14: with one stage, the frequency the stage's coefficient is derived from
\* is the requested center frequency clamped to the legal range, for every
\* shape: the coefficient is the bilinear-transform coefficient of the center
\* frequency.
C14_SingleStageAtCenter ==
    (co.sampleRate > 0 /\ co.activeStages = 1) =>
        co.stageCoeffA[1] = allpassCoeffFromFreq(co.cachedFreq, co.sampleRate)

(***************************************************************************)
(* One chain of all-pass stages (specification SpecAllpass).               *)
(***************************************************************************)
\* Coefficients, in quarters: a single stage takes any of them, the stages
\* of a two-stage chain the halves.
ApCoeffs == {0 - 3, 0 - 2, 0 - 1, 0, 1, 2, 3}
ApChains == {<<a>> : a \in ApCoeffs} \cup {<<a, b>> : a, b \in {0 - 2, 0, 2}}
\* Input samples -1.0, 0.0 and 1.0.
ApInputs == {0 - ApScale, 0, ApScale}

\* The coefficients are set and the stages reset.
ApReset ==
    /\ \E as \in ApChains :
         ap' = [a |-> as, st |-> [i \in 1..Len(as) |-> Allpass1Reset],
                n |-> 0, ein |-> 0, eout |-> 0]
    /\ UNCHANGED <<ctlVars, lat, olaVars, co, du, rg, host, nw, cb>>

\* One sample through the chain.
ApProcess ==
    /\ Len(ap.a) > 0 /\ ap.n < MaxApSteps
    /\ \E x \in ApInputs :
         \E r \in {ProcessChain(ap.st, ap.a, x, 1)} :
           ap' = [ap EXCEPT !.st = r.sts, !.n = @ + 1,
                            !.ein = @ + x * x, !.eout = @ + r.y * r.y]
    /\ UNCHANGED <<ctlVars, lat, olaVars, co, du, rg, host, nw, cb>>

ApNext == ApReset \/ ApProcess

SpecAllpass == Init /\ [][ApNext]_vars

\* 16 (1 - a^2) for stage i, and four times the state x1 + a y1 of stage i.
ApLoss(i) == 16 - ap.a[i] * ap.a[i]
ApHeld(i) == 4 * ap.st[i].x1 + ap.a[i] * ap.st[i].y1

RECURSIVE ApLossProduct(_)
ApLossProduct(I) ==
    IF I = {} THEN 1
    ELSE LET i == CHOOSE j \in I : TRUE IN ApLoss(i) * ApLossProduct(I \ {i})

RECURSIVE ApHeldSum(_, _)
ApHeldSum(I, all) ==
    IF I = {} THEN 0
    ELSE LET i == CHOOSE j \in I : TRUE
         IN  ApHeld(i) * ApHeld(i) * ApLossProduct(all \ {i})
               + ApHeldSum(I \ {i}, all)

\* C15: for |a| < 1 the stage y = -a x + x1 + a y1, and any chain of such
\* stages, has unit magnitude response.  In the time domain: the chain is
\* lossless.  After any input the energy fed in exceeds the energy returned
\* by exactly the energy held in the stages, (x1 + a y1)^2 / (1 - a^2) per
\* stage, which decays once the input stops; so every input comes out with
\* its energy unchanged, which by Parseval is |H| = 1 at every frequency.
C15_AllpassLossless ==
    LET all == 1..Len(ap.a)
    IN  /\ (ap.ein - ap.eout) * ApLossProduct(all) = ApHeldSum(all, all)
        /\ ap.eout <= ap.ein

\* A two-stage chain with both coefficients non-zero that has returned part
\* of the energy of three samples and still holds the rest.
C15_Witness ==
    /\ Len(ap.a) = 2 /\ ap.a[1] # 0 /\ ap.a[2] # 0 /\ ap.n = MaxApSteps
    /\ ap.eout > 0 /\ ap.eout < ap.ein

\* A prepareToPlay call that took effect (a valid rate).
PrepareStep == pc = "idle" /\ pc' = "idle" /\ p' # p

\* 0 <= transitionPos <= transitionSamples, and 0 outside a transition.
TransitionPosInRange(q) ==
    /\ 0 <= q.transitionPos /\ q.transitionPos <= q.transitionSamples
    /\ ~q.inTransition => q.transitionPos = 0

\* C16 as stated: transitionPos stays in [0, transitionSamples] and is 0
\* outside a transition; through a call that does not complete the ramp it
\* does not decrease; and it goes back to 0 only where a transition starts
\* or completes.
C16_TransitionPosOriginal ==
    [][/\ TransitionPosInRange(p')
       /\ (BodyStep /\ p.inTransition /\ ~res'.completed) =>
             p'.transitionPos >= p.transitionPos
       /\ p'.transitionPos < p.transitionPos =>
             \/ BodyStep /\ res'.completed
             \/ HeadStep /\ res'.started]_vars

\* C16, amended: the same, with the third place where transitionPos goes back
\* to 0: a prepareToPlay call with a valid rate, which abandons the ramp.
C16_TransitionPos ==
    [][/\ TransitionPosInRange(p')
       /\ (BodyStep /\ p.inTransition /\ ~res'.completed) =>
             p'.transitionPos >= p.transitionPos
       /\ p'.transitionPos < p.transitionPos =>
             \/ BodyStep /\ res'.completed
             \/ HeadStep /\ res'.started
             \/ PrepareStep /\ ~p'.inTransition]_vars

\* Between two calls in the middle of a ramp.
C16_Witness ==
    /\ pc = "idle" /\ p.inTransition /\ res.blended /\ ~res.completed
    /\ 0 < p.transitionPos /\ p.transitionPos < p.transitionSamples

\* The topology fields of an engine and the sizes of its buffers.
EngineShape(e) == <<e.amount, e.activeStages, e.series, e.reverse, EngineSizes(e)>>

\* C17: during processBlock only the standby engine engB is reconfigured: the
\* topology fields (amount, activeStages, series, reverse) and the buffer
\* sizes of the active engine engA change only in the role swap at the
\* completion of a transition (prepareToPlay aside, which is no step of
\* processBlock).
C17_ActiveEngineUntouched ==
    [][((HeadStep \/ BodyStep) /\ ~(BodyStep /\ res'.completed)) =>
          EngineShape(p'.engA) = EngineShape(p.engA)]_vars

(***************************************************************************)
(* The two engines through the blocks of a transition (specification       *)
(* SpecDual): the buffers processBlock hands to engA and engB, with their  *)
(* contents.                                                               *)
(***************************************************************************)
\* Samples the pair processes after prepareToPlay.
DualHorizon == 6
DualBlockSizes == {1, 3}
DualSampleRates == {16}
DualAmounts == {0, 1, 256}

\* A sample read back from a buffer an engine has written: the one value it
\* holds, or the sum of the values added into it.
AsValue(cell) ==
    IF \E v \in cell : cell = {v} THEN CHOOSE v \in cell : TRUE
    ELSE [org |-> NoOrg, sup |-> UNION {v.sup : v \in cell}]

\* Engine::processBlock on a buffer, in place, sample k onward.
RECURSIVE EngineProcessInPlace(_, _, _, _)
EngineProcessInPlace(e, b, buf, k) ==
    IF EngineBypassed(e) \/ k > Len(buf) THEN [e |-> e, b |-> b, buf |-> buf]
    ELSE LET r == IF e.reverse THEN ReverseSample(e, b, AsValue(buf[k]))
                  ELSE ForwardSample(e, b, AsValue(buf[k]))
         IN  EngineProcessInPlace(r.e, r.b, [buf EXCEPT ![k] = r.y], k + 1)

\* processBlock in a transition with transitionBufferB copied from the host
\* buffer after engA has processed it.
TransitionBlock_copyAfter(d, n) ==
    LET input == [k \in 1..n |-> {InputValue(d.t + k - 1)}]
        rA == EngineProcessInPlace(d.eA, d.bA, input, 1)
        tb == rA.buf
        rB == EngineProcessInPlace(d.eB, d.bB, tb, 1)
    IN  [eA |-> rA.e, bA |-> rA.b, eB |-> rB.e, bB |-> rB.b,
         tb |-> rB.buf, fedA |-> input, fedB |-> tb,
         outA |-> rA.buf, outB |-> rB.buf,
         buffer |-> [k \in 1..n |-> rA.buf[k] \cup rB.buf[k]],
         t |-> d.t + n, n |-> n, inTransition |-> TRUE]

\* processBlock in a transition: transitionBufferB is made a copy of the host
\* buffer, engA processes the host buffer in place, engB the copy, and the
\* two are summed (with the ramp weights) into the host buffer.
TransitionBlock(d, n) ==
    LET input == [k \in 1..n |-> {InputValue(d.t + k - 1)}]
        tb == input
        rA == EngineProcessInPlace(d.eA, d.bA, input, 1)
        rB == EngineProcessInPlace(d.eB, d.bB, tb, 1)
    IN  [eA |-> rA.e, bA |-> rA.b, eB |-> rB.e, bB |-> rB.b,
         tb |-> rB.buf, fedA |-> input, fedB |-> tb,
         outA |-> rA.buf, outB |-> rB.buf,
         buffer |-> [k \in 1..n |-> rA.buf[k] \cup rB.buf[k]],
         t |-> d.t + n, n |-> n, inTransition |-> TRUE]

\* prepareToPlay: both engines initialised, engA configured.
DualPrepareToPlay ==
    /\ \E hz \in DualSampleRates, a \in DualAmounts, r \in BOOLEAN :
         du' = [DualDefault EXCEPT
                  !.eA = setTopology(EngineInit(du.eA, hz), a, kSeriesDefault, r),
                  !.bA = setTopologyContents(EngineInit(du.eA, hz),
                             EngineInitContents(du.eA, du.bA, hz),
                             a, kSeriesDefault, r),
                  !.eB = EngineInit(du.eB, hz),
                  !.bB = EngineInitContents(du.eB, du.bB, hz)]
    /\ UNCHANGED <<ctlVars, lat, olaVars, co, ap, rg, host, nw, cb>>

\* startTransitionIfNeeded: engB configured for the request.
DualStartTransition ==
    /\ du.eA.sampleRate > 0 /\ ~du.inTransition
    /\ \E a \in DualAmounts, r \in BOOLEAN :
         du' = [du EXCEPT
                  !.eB = setTopology(du.eB, a, kSeriesDefault, r),
                  !.bB = setTopologyContents(du.eB, du.bB, a, kSeriesDefault, r),
                  !.inTransition = TRUE]
    /\ UNCHANGED <<ctlVars, lat, olaVars, co, ap, rg, host, nw, cb>>

\* One block of the transition.
DualTransitionBlock ==
    /\ du.inTransition
    /\ \E n \in DualBlockSizes :
         /\ du.t + n <= DualHorizon
         /\ du' = TransitionBlock(du, n)
    /\ UNCHANGED <<ctlVars, lat, olaVars, co, ap, rg, host, nw, cb>>

\* Completion: the engines swap roles.
DualComplete ==
    /\ du.inTransition /\ du.n > 0
    /\ du' = [du EXCEPT !.eA = du.eB, !.bA = du.bB, !.eB = du.eA, !.bB = du.bA,
                        !.n = 0, !.inTransition = FALSE]
    /\ UNCHANGED <<ctlVars, lat, olaVars, co, ap, rg, host, nw, cb>>

DualNext ==
    DualPrepareToPlay \/ DualStartTransition \/ DualTransitionBlock \/ DualComplete

SpecDual == Init /\ [][DualNext]_vars

\* A block of the transition has just been processed.
DualBlockStep == du'.t > du.t

\* C18: in a transition both engines are handed the same unprocessed input
\* block, and processing one engine changes no state of the other: each
\* engine ends the block in the state, and with the output, it would have
\* reached processing that input alone.
C18_SameInputIndependentEngines ==
    [][DualBlockStep =>
         LET n == du'.t - du.t
             input == [k \in 1..n |-> {InputValue(du.t + k - 1)}]
             aloneA == EngineProcessSamples(du.eA, du.bA, du.t, n, << >>)
             aloneB == EngineProcessSamples(du.eB, du.bB, du.t, n, << >>)
         IN  /\ du'.fedA = input /\ du'.fedB = input
             /\ du'.eA = aloneA.e /\ du'.bA = aloneA.b /\ du'.outA = aloneA.ys
             /\ du'.eB = aloneB.e /\ du'.bB = aloneB.b /\ du'.outB = aloneB.ys]_vars

\* A transition block in which both engines ran, one of them in reverse, and
\* produced different outputs from the same input.
C18_Witness ==
    /\ du.n > 0 /\ du.t = DualHorizon
    /\ ~EngineBypassed(du.eA) /\ ~EngineBypassed(du.eB)
    /\ du.eA.reverse # du.eB.reverse
    /\ du.fedA = du.fedB /\ du.outA # du.outB

(***************************************************************************)
(* The overlap-add ring of a reverse engine with every frame contribution  *)
(* told apart (specification SpecRing).                                    *)
(***************************************************************************)
\* Samples processed after a reset.
RingHorizon == 12
RingSampleRates == {16, 20, 24}

\* olaPopStereo that leaves the popped cell as it is.
RingPop_noClear(r) ==
    IF r.e.framesReady = 0 THEN [r EXCEPT !.emitted = Append(@, {})]
    ELSE [r EXCEPT !.emitted = Append(@, r.ola[r.e.olaReadPos + 1]),
                   !.e = olaPopCursor(r.e)]

\* Engine::olaPopStereo: zero until a frame has been added; after that the
\* cell under the read cursor is returned, cleared, and the cursor moves on.
RingPop(r) ==
    IF r.e.framesReady = 0 THEN [r EXCEPT !.emitted = Append(@, {})]
    ELSE [r EXCEPT !.emitted = Append(@, r.ola[r.e.olaReadPos + 1]),
                   !.ola[r.e.olaReadPos + 1] = {},
                   !.e = olaPopCursor(r.e)]

\* Engine::olaAddFrame: element i of the frame is added into the cell at
\* olaWritePos + i, wrapping, and the write cursor moves on by one hop.
RingAddFrame(r) ==
    LET e == r.e
        firstLen == jmin(e.winN, e.olaSize - e.olaWritePos)
        Slot(i) == IF i < firstLen THEN e.olaWritePos + i ELSE i - firstLen
    IN  [r EXCEPT !.ola = [c \in 1..e.olaSize |->
                     r.ola[c] \cup {<<r.frames + 1, i>> : i \in {j \in 0..(e.winN - 1) : Slot(j) = c - 1}}],
                  !.frames = @ + 1,
                  !.atAdd = [olaReadPos |-> e.olaReadPos, olaWritePos |-> e.olaWritePos],
                  !.e = olaAddFrameCursor(e)]

\* One iteration of the reverse loop of Engine::processBlock.
RingSample(r) ==
    LET r1 == [r EXCEPT !.e.inWritePos =
                  IF r.e.inWritePos + 1 >= r.e.winN THEN 0 ELSE r.e.inWritePos + 1,
                        !.n = @ + 1]
        r2 == RingPop(r1)
    IN  IF r2.e.hopCounter + 1 >= r2.e.hopH
          THEN RingAddFrame([r2 EXCEPT !.e.hopCounter = 0])
          ELSE [r2 EXCEPT !.e.hopCounter = @ + 1]

\* Engine::init followed by resetReverseOLA for a window of newN samples.
RingReset ==
    /\ \E hz \in RingSampleRates :
         \E e0 \in {EngineInit(EngineDefault, hz)} :
           \E newN \in 1..e0.maxWindowSamples :
             \E e1 \in {resetReverseOLA(e0, newN)} :
               rg' = [RingDefault EXCEPT !.e = e1,
                                         !.ola = [c \in 1..e1.olaSize |-> {}]]
    /\ UNCHANGED <<ctlVars, lat, olaVars, co, ap, du, host, nw, cb>>

RingProcessSample ==
    /\ rg.e.olaSize > 0 /\ rg.n < RingHorizon
    /\ rg' = RingSample(rg)
    /\ UNCHANGED <<ctlVars, lat, olaVars, co, ap, du, host, nw, cb>>

RingNext == RingReset \/ RingProcessSample

SpecRing == Init /\ [][RingNext]_vars

\* The contributions of the frames added so far, those still in the ring and
\* those in the cells popped so far.
RingAdded == {<<f, i>> : f \in 1..rg.frames, i \in 0..(rg.e.winN - 1)}
RingHeld(c) == rg.ola[c]
RingEmitted(k) == rg.emitted[k]

\* C19: a popped cell is cleared, and every olaAddFrame call finds
\* olaWritePos = (olaReadPos + winN) mod olaSize, so that it writes only
\* cells the read cursor has yet to reach: every contribution of every frame
\* is either still in exactly one cell of the ring or has been emitted in
\* exactly one output sample, never both and never neither.
C19_EachContributionOnce ==
    /\ rg.frames > 0 =>
         rg.atAdd.olaWritePos = (rg.atAdd.olaReadPos + rg.e.winN) % rg.e.olaSize
    /\ \A t \in RingAdded :
         Cardinality({c \in 1..Len(rg.ola) : t \in RingHeld(c)})
           + Cardinality({k \in 1..Len(rg.emitted) : t \in RingEmitted(k)}) = 1
    /\ \A c \in 1..Len(rg.ola) : RingHeld(c) \subseteq RingAdded
    /\ \A k \in 1..Len(rg.emitted) : RingEmitted(k) \subseteq RingAdded

\* An odd window with overlapping frames: several frames added, some of
\* their contributions emitted and some still in the ring.
C19_Witness ==
    /\ rg.e.winN = 5 /\ rg.frames >= 5 /\ rg.n = RingHorizon
    /\ \E k \in 1..Len(rg.emitted) : Cardinality(RingEmitted(k)) >= 2
    /\ \E c \in 1..Len(rg.ola) : RingHeld(c) # {}

(***************************************************************************)
(* Claims settled under SpecOLA (continued).                               *)
(***************************************************************************)
\* The input sample that is k samples older than the newest one, zero where
\* no input was received yet (inputs are numbered from 0 at the reset).
InputBefore(k) ==
    IF now - 1 - k >= 0 THEN InputValue(now - 1 - k) ELSE ZeroValue

\* C20: after an OLA reset each input sample is written to the input ring,
\* then one output sample is popped, then, after every hopH-th sample only
\* (hopH = max (1, winN / 2)), one frame is extracted, filtered and
\* overlap-added, however the samples are split into blocks: after any number
\* of samples the cursors are where that order puts them, one output has been
\* popped per input, and the frame grabLastNToFrame extracts holds at index i
\* the input sample that is winN - 1 - i samples older than the newest one,
\* zero where no input was received yet.
C20_SampleOrderAndFrame ==
    ReverseRunning =>
      /\ oe.hopH = jmax(1, oe.winN \div 2)
      /\ oe.inWritePos = now % oe.winN
      /\ oe.hopCounter = now % oe.hopH
      /\ oe.framesReady = (IF now >= oe.hopH THEN 1 ELSE 0)
      /\ oe.olaWritePos = (oe.winN + (now \div oe.hopH) * oe.hopH) % oe.olaSize
      /\ oe.olaReadPos = (IF now > oe.hopH THEN now - oe.hopH ELSE 0) % oe.olaSize
      /\ Len(olog) = now
      /\ \A i \in 0..(oe.winN - 1) :
           grabLastNToFrame(oe, ob).frame[i + 1] = InputBefore(oe.winN - 1 - i)

\* A reverse engine with an odd window, fed in blocks, after several hops and
\* with the input ring wrapped in the middle.
C20_Witness ==
    /\ ReverseRunning /\ oe.winN = 5 /\ now = OlaHorizon
    /\ oe.inWritePos # 0 /\ oe.hopCounter # 0

(***************************************************************************)
(* The pending request and the Stable state (specification Spec).          *)
(***************************************************************************)
\* C27: hasPendingTopology is true only while a transition is in flight,
\* also after a prepareToPlay call in the middle of a transition; a pending
\* request captured before a prepareToPlay call is never applied after it.
C27_PendingOnlyInTransition ==
    p.hasPendingTopology => p.inTransition

\* C28: whenever the controller is Stable after prepareToPlay, the active
\* engine's (amount, series, reverse) are the cached key and the topology
\* setTopology last configured it with (activeStages = amount and, in
\* reverse, winN = windowSamplesFromAmount (amount)), so the per-block
\* assignments to engA.amount, engA.series and engA.reverse change no value.
C28_StableEngineIsCachedKey ==
    [][/\ (p'.currentSampleRate > 0 /\ ~p'.inTransition /\ pc' = "idle") =>
            /\ TopologyOf(p'.engA) = CachedKey(p')
            /\ p'.engA.activeStages = p'.engA.amount
            /\ p'.engA.reverse =>
                 p'.engA.winN = windowSamplesFromAmount(p'.engA, p'.engA.amount)
       /\ (BodyStep /\ p.currentSampleRate > 0 /\ ~p.inTransition) =>
            TopologyOf(p'.engA) = TopologyOf(p.engA)]_vars

(***************************************************************************)
(* The processor under a host whose parameters stop changing               *)
(* (specification SpecLive).  Until then the host prepares and calls with  *)
(* any values; from then on it only calls processBlock, with non-empty     *)
(* blocks and the same stage count, chain count and reverse flag.          *)
(***************************************************************************)
LiveBlockSizes == {MaxBlock - 2, MaxBlock}

LivePrepareToPlay ==
    /\ pc = "idle" /\ ~host.settled
    /\ \E sr \in HostSampleRates, a \in HostAmounts, s \in HostSeries, r \in BOOLEAN :
         p' = prepareToPlay(p, sr, a, s, r)
    /\ UNCHANGED <<pc, loc, out, res, rampSoFar, capturedInRamp, lastCaptured,
                   lat, oe, ob, now, olog, co, ap, du, rg, host, nw, cb>>

\* The host's parameters take their last values.
LiveSettle ==
    /\ pc = "idle" /\ ~host.settled
    /\ \E a \in HostAmounts, s \in HostSeries, r \in BOOLEAN :
         host' = [settled |-> TRUE, amount |-> a, series |-> s, reverse |-> r]
    /\ UNCHANGED <<ctlVars, lat, olaVars, co, ap, du, rg, nw, cb>>

LiveBeginBlock ==
    /\ pc = "idle"
    /\ \E n \in LiveBlockSizes, a \in HostAmounts, s \in HostSeries, r \in BOOLEAN :
         /\ host.settled => (a = host.amount /\ s = host.series /\ r = host.reverse)
         /\ \E h \in {ProcessBlockHead(p, n, 2, a, s, r, FALSE)} :
              /\ p' = h.proc
              /\ loc' = h.loc
              /\ pc' = "run"
    /\ UNCHANGED <<out, res, rampSoFar, capturedInRamp, lastCaptured,
                   lat, oe, ob, now, olog, co, ap, du, rg, host, nw, cb>>

LiveFinishBlock ==
    /\ pc = "run"
    /\ p' = ProcessBlockBody(p, loc).proc
    /\ pc' = "idle"
    /\ loc' = LocNone
    /\ UNCHANGED <<out, res, rampSoFar, capturedInRamp, lastCaptured,
                   lat, oe, ob, now, olog, co, ap, du, rg, host, nw, cb>>

LiveNext == LivePrepareToPlay \/ LiveSettle \/ LiveBeginBlock \/ LiveFinishBlock

\* A call of processBlock begins: the step of LiveBeginBlock, which is
\* enabled in every state with pc = "idle".
BlockCalled == pc = "idle" /\ pc' = "run"

\* A call of processBlock returns: the step of LiveFinishBlock, which is
\* enabled in every state with pc = "run".
BlockReturned == pc = "run" /\ pc' = "idle"

\* The host keeps calling processBlock, and every call returns.
SpecLive ==
    Init /\ [][LiveNext]_vars /\ WF_pc(BlockCalled) /\ WF_pc(BlockReturned)

\* The topology the settled host asks for, clamped.
SettledRequest ==
    [amount |-> jlimit(kAmountMin, kAmountMax, host.amount),
     series |-> jlimit(kSeriesMin, kSeriesMax, host.series),
     reverse |-> host.reverse]

FreshReverseBuffers(e, b) ==
    /\ Len(b.ring) = e.winN /\ \A i \in 1..Len(b.ring) : b.ring[i] = ZeroValue
    /\ Len(b.frame) = e.winN /\ \A i \in 1..Len(b.frame) : b.frame[i] = ZeroValue
    /\ Len(b.ola) = e.olaSize /\ \A i \in 1..Len(b.ola) : b.ola[i] = {}
    /\ e.ringSize = e.winN /\ e.frameSize = e.winN
    /\ e.olaSize = jmax(2, 2 * e.winN)
    /\ e.inWritePos = 0 /\ e.hopCounter = 0 /\ e.framesReady = 0
    /\ e.olaReadPos = 0
    /\ e.olaWritePos = e.winN % e.olaSize

\* C21: winN and hopH change only in Engine::init and in setTopology with
\* reverse on (the callers of resetReverseOLA), and right after setTopology
\* with reverse on the input rings, the overlap-add rings and the frame
\* buffers are all zero, inWritePos = hopCounter = framesReady = olaReadPos
\* = 0, olaWritePos = winN mod olaSize and olaSize = max(2, 2 * winN).
C21_WindowOnlyInReset ==
    [][/\ (oe'.winN # oe.winN \/ oe'.hopH # oe.hopH) =>
            /\ now' = 0
            /\ oe'.reverse \/ \E hz \in OlaSampleRates : oe' = EngineInit(oe, hz)
       /\ (now' = 0 /\ oe'.reverse) => FreshReverseBuffers(oe', ob')]_vars

\* setTopology with reverse on has just run on a prepared engine with a
\* window of several samples.
C21_Witness ==
    /\ now = 0 /\ oe.reverse /\ oe.sampleRate > 0 /\ oe.winN > 2
    /\ FreshReverseBuffers(oe, ob)

(***************************************************************************)
(* The chains of one forward engine (specification SpecNet).               *)
(*                                                                         *)
(* A signal value is the list of the stage updates it went through, each   *)
(* <<chain, stage, coefficient>>, and the set of input samples             *)
(* <<channel, time>> it depends on; the delay cells x1 and y1 of a stage   *)
(* hold the inputs their value depends on, so the empty set is 0.0f.       *)
(* Coefficients are named by small numbers, 0 for the initial a = 0.0f.    *)
(* The stage count comes from the continuous amount of the block through   *)
(* the rounding of processBlock, the cached key being the last count.      *)
(***************************************************************************)
\* Samples the engine processes after setTopology in the model.
NetHorizon == 3
\* Continuous amounts, in twentieths of a stage: 0, 1, 1.25, 1.5, 2.25, 3.
NetAmounts20 == {0, 20, 25, 30, 45, 60}
NetSeries == {0, 2, 3, 5}
NetCoeffs == {1, 2}
NetBlockSizes == {1, 2}
NetChannelCounts == {1, 2}

\* The input sample of a channel at time t.
NetInput(ch, t) == [hist |-> << >>, sup |-> {<<ch, t>>}]

\* NetworkInstance::ensureStages: a chain of n stages is left alone, state
\* included; otherwise it gets n default stages.
ensureStages(stages, n) ==
    IF Len(stages) = n THEN stages ELSE [i \in 1..n |-> StageDefault]

\* resetActive that clears the left channel only.
resetActive_leftOnly(stages, activeStages) ==
    LET n == jlimit(0, Len(stages), activeStages)
    IN  [i \in 1..Len(stages) |->
           IF i <= n
             THEN [stages[i] EXCEPT !.left = [@ EXCEPT !.x1 = {}, !.y1 = {}]]
             ELSE stages[i]]

\* NetworkInstance::resetActive: x1 = y1 = 0 in both channels of the first
\* activeStages stages.
resetActive(stages, activeStages) ==
    LET n == jlimit(0, Len(stages), activeStages)
    IN  [i \in 1..Len(stages) |->
           IF i <= n
             THEN [left |-> [stages[i].left EXCEPT !.x1 = {}, !.y1 = {}],
                   right |-> [stages[i].right EXCEPT !.x1 = {}, !.y1 = {}]]
             ELSE stages[i]]

\* Engine::resetAllNetworks.
resetAllNetworks(e) ==
    [e EXCEPT !.nets = [c \in DOMAIN e.nets |-> resetActive(e.nets[c], e.activeStages)]]

\* Engine::applyCoefficientsToNetworks (kUseActiveStageCoeffPropagation is
\* false): every chain of exactly activeStages stages gets the coefficients,
\* the same in both channels.
applyCoefficientsToNetworks(e) ==
    IF e.activeStages <= 0 THEN e
    ELSE [e EXCEPT !.nets = [c \in DOMAIN e.nets |->
            IF Len(e.nets[c]) # e.activeStages THEN e.nets[c]
            ELSE [i \in 1..Len(e.nets[c]) |->
                    [left |-> [e.nets[c][i].left EXCEPT !.a = e.stageCoeffA[i]],
                     right |-> [e.nets[c][i].right EXCEPT !.a = e.stageCoeffA[i]]]]]]

\* Engine::updateCoefficientsNow with the coefficients it computes given as
\* as: nothing without stages or without a sample rate.
NetUpdateCoefficientsNow(e, as) ==
    IF e.activeStages <= 0 \/ ~e.prepared THEN e
    ELSE applyCoefficientsToNetworks([e EXCEPT !.stageCoeffA = as])

\* Engine::init with a valid rate.
NetInit(e) ==
    [e EXCEPT !.prepared = TRUE, !.amount = 0, !.activeStages = 0, !.series = 1,
              !.stageCoeffA = [i \in 1..kAmountMax |-> 0],
              !.nets = [c \in DOMAIN e.nets |-> ensureStages(e.nets[c], kAmountMax)]]

\* Engine::ensureAllStages with the coefficient vector and the chains.
NetEnsureAllStages(e, numStages) ==
    LET n == jlimit(0, kAmountMax, numStages)
    IN  [e EXCEPT !.activeStages = n,
                  !.stageCoeffA = IF Len(e.stageCoeffA) # n
                                    THEN [i \in 1..n |-> 0] ELSE e.stageCoeffA,
                  !.nets = [c \in DOMAIN e.nets |-> ensureStages(e.nets[c], n)]]

\* Engine::setTopology of a forward engine.
NetSetTopology(e, newAmount, newSeries, as) ==
    LET e1 == [e EXCEPT !.amount = jlimit(kAmountMin, kAmountMax, newAmount),
                        !.series = jlimit(kSeriesMin, kSeriesMax, newSeries)]
        e2 == NetEnsureAllStages(e1, e1.amount)
    IN  resetAllNetworks(NetUpdateCoefficientsNow(e2, as))

\* Allpass1::process on signal x in chain c, stage s.
Allpass1Trace(st, x, c, s) ==
    LET y == [hist |-> Append(x.hist, <<c, s, st.a>>),
              sup |-> x.sup \cup st.x1 \cup st.y1]
    IN  [st |-> [st EXCEPT !.x1 = x.sup, !.y1 = y.sup], y |-> y]

\* Stage s (counted from 0) of a chain on the left sample only.
StageMono(sts, c, xL, xR, s) ==
    LET l == Allpass1Trace(sts[s + 1].left, xL, c, s)
    IN  [sts |-> [sts EXCEPT ![s + 1].left = l.st], xL |-> l.y, xR |-> xR]

\* Stage s (counted from 0) of a chain on both samples.
StageStereo(sts, c, xL, xR, s) ==
    LET l == Allpass1Trace(sts[s + 1].left, xL, c, s)
        r == Allpass1Trace(sts[s + 1].right, xR, c, s)
    IN  [sts |-> [sts EXCEPT ![s + 1] = [left |-> l.st, right |-> r.st]],
         xL |-> l.y, xR |-> r.y]

\* PROCESS_CHAIN_MONO: two stages per iteration, then the odd one.
RECURSIVE PROCESS_CHAIN_MONO(_, _, _, _, _, _)
PROCESS_CHAIN_MONO(sts, numStages, c, xL, xR, s) ==
    IF s + 1 < numStages
      THEN LET r1 == StageMono(sts, c, xL, xR, s)
               r2 == StageMono(r1.sts, c, r1.xL, r1.xR, s + 1)
           IN  PROCESS_CHAIN_MONO(r2.sts, numStages, c, r2.xL, r2.xR, s + 2)
    ELSE IF s < numStages THEN StageMono(sts, c, xL, xR, s)
    ELSE [sts |-> sts, xL |-> xL, xR |-> xR]

\* PROCESS_CHAIN_STEREO without the statement after the loop.
RECURSIVE PROCESS_CHAIN_STEREO_noTail(_, _, _, _, _, _)
PROCESS_CHAIN_STEREO_noTail(sts, numStages, c, xL, xR, s) ==
    IF s + 1 < numStages
      THEN LET r1 == StageStereo(sts, c, xL, xR, s)
               r2 == StageStereo(r1.sts, c, r1.xL, r1.xR, s + 1)
           IN  PROCESS_CHAIN_STEREO_noTail(r2.sts, numStages, c, r2.xL, r2.xR, s + 2)
    ELSE [sts |-> sts, xL |-> xL, xR |-> xR]

\* PROCESS_CHAIN_STEREO: two stages per iteration, then the odd one.
RECURSIVE PROCESS_CHAIN_STEREO(_, _, _, _, _, _)
PROCESS_CHAIN_STEREO(sts, numStages, c, xL, xR, s) ==
    IF s + 1 < numStages
      THEN LET r1 == StageStereo(sts, c, xL, xR, s)
               r2 == StageStereo(r1.sts, c, r1.xL, r1.xR, s + 1)
           IN  PROCESS_CHAIN_STEREO(r2.sts, numStages, c, r2.xL, r2.xR, s + 2)
    ELSE IF s < numStages THEN StageStereo(sts, c, xL, xR, s)
    ELSE [sts |-> sts, xL |-> xL, xR |-> xR]

\* The body of the sample loop for sCount chains: the cases of the switch
\* run chains 0 .. sCount - 1 one after the other (c counts from 1).
RECURSIVE NetForwardChains(_, _, _, _, _, _, _)
NetForwardChains(nets, numStages, sCount, isMono, xL, xR, c) ==
    IF c > sCount THEN [nets |-> nets, xL |-> xL, xR |-> xR]
    ELSE LET r == IF isMono
                    THEN PROCESS_CHAIN_MONO(nets[c], numStages, c, xL, xR, 0)
                    ELSE PROCESS_CHAIN_STEREO(nets[c], numStages, c, xL, xR, 0)
         IN  NetForwardChains([nets EXCEPT ![c] = r.sts], numStages, sCount,
                              isMono, r.xL, r.xR, c + 1)

\* The forward sample loops of Engine::processBlock (the warm samples, then
\* the rest) on the inputs of times t0 .. t0 + n - 1.
RECURSIVE NetForwardSamples(_, _, _, _, _)
NetForwardSamples(e, isMono, t0, n, ys) ==
    IF n <= 0 THEN [e |-> e, ys |-> ys]
    ELSE LET r == NetForwardChains(e.nets, e.activeStages,
                                   jlimit(1, kSeriesMax, e.series), isMono,
                                   NetInput("L", t0), NetInput("R", t0), 1)
         IN  NetForwardSamples([e EXCEPT !.nets = r.nets], isMono, t0 + 1, n - 1,
                               Append(ys, IF isMono THEN <<r.xL>>
                                          ELSE <<r.xL, r.xR>>))

\* Engine::processBlock of a forward engine on n samples from time t0:
\* nothing without stages; the coefficients are recomputed (to as) when the
\* control bins moved.
NetProcessBlock(e, channels, t0, n, recompute, as) ==
    IF e.amount <= 0 \/ e.activeStages <= 0
      THEN [e |-> e,
            ys |-> [k \in 1..n |->
                      IF channels = 1 THEN <<NetInput("L", t0 + k - 1)>>
                      ELSE <<NetInput("L", t0 + k - 1), NetInput("R", t0 + k - 1)>>]]
    ELSE NetForwardSamples(IF recompute THEN NetUpdateCoefficientsNow(e, as) ELSE e,
                           channels = 1, t0, n, << >>)

NetEngineInit ==
    /\ \E ch \in NetChannelCounts :
         nw' = [NetInit(nw) EXCEPT !.channels = ch, !.n = 0, !.out = << >>,
                                   !.last = "init", !.kept = FALSE]
    /\ UNCHANGED <<ctlVars, lat, olaVars, co, ap, du, rg, host, cb>>

\* setTopology for the stage count the controller derives from c20.
NetEngineSetTopology ==
    /\ \E c20 \in NetAmounts20, s \in NetSeries :
         \E a \in {AmountNow([cachedAmountKey |-> nw.key], c20)} :
           \E as \in [1..a -> NetCoeffs] :
             nw' = [NetSetTopology(nw, a, s, as) EXCEPT
                      !.key = a, !.c20 = c20, !.n = 0, !.out = << >>,
                      !.last = "setTopology",
                      !.kept = \E c \in DOMAIN nw.nets :
                                 /\ Len(nw.nets[c]) = a
                                 /\ \E i \in 1..a : nw.nets[c][i].right.y1 # {}]
    /\ UNCHANGED <<ctlVars, lat, olaVars, co, ap, du, rg, host, cb>>

NetEngineProcessBlock ==
    /\ \E n \in NetBlockSizes, recompute \in BOOLEAN :
         /\ nw.n + n <= NetHorizon
         /\ \E as \in [1..nw.activeStages -> NetCoeffs] :
              \E r \in {NetProcessBlock(nw, nw.channels, nw.n, n, recompute, as)} :
                nw' = [r.e EXCEPT !.n = nw.n + n, !.out = r.ys,
                                  !.last = "processBlock"]
    /\ UNCHANGED <<ctlVars, lat, olaVars, co, ap, du, rg, host, cb>>

NetNext == NetEngineInit \/ NetEngineSetTopology \/ NetEngineProcessBlock

SpecNet == Init /\ [][NetNext]_vars

\* C22: right after setTopology the delay state (x1, y1) of every stage
\* 0 .. activeStages - 1 of every chain is zero in both channels, whatever
\* the engine held before.
C22_StagesZeroAfterSetTopology ==
    nw.last = "setTopology" =>
      \A c \in DOMAIN nw.nets : \A i \in 1..nw.activeStages :
        /\ i <= Len(nw.nets[c])
        /\ nw.nets[c][i].left.x1 = {} /\ nw.nets[c][i].left.y1 = {}
        /\ nw.nets[c][i].right.x1 = {} /\ nw.nets[c][i].right.y1 = {}

\* setTopology has run on chains of the same length that still held the
\* state of earlier samples.
C22_Witness ==
    nw.last = "setTopology" /\ nw.kept /\ nw.activeStages >= 2

\* The stage updates one sample goes through in an engine of sCount chains
\* of n stages: chain after chain, stage after stage, each with the
\* coefficient of its stage.
ExpectedHist(e) ==
    LET n == e.activeStages
    IN  [k \in 1..(e.series * n) |->
           <<((k - 1) \div n) + 1, (k - 1) % n, e.stageCoeffA[((k - 1) % n) + 1]>>]

\* The channel of position j of an output sample.
ChannelAt(j) == IF j = 1 THEN "L" ELSE "R"

\* C26: in forward mode every input sample of every channel goes through
\* exactly series * activeStages stage updates, chains 0 .. series - 1 in
\* order and in each chain stages 0 .. activeStages - 1 in order, each once,
\* odd stage counts included; both channels use the same coefficient in a
\* stage, and the delay state of a channel depends on that channel's input
\* only.
C26_EveryStageOnceInOrder ==
    /\ nw.last = "processBlock" =>
         \A k \in 1..Len(nw.out) : \A j \in 1..Len(nw.out[k]) :
           /\ nw.out[k][j].hist = ExpectedHist(nw)
           /\ <<ChannelAt(j), nw.n - Len(nw.out) + k - 1>> \in nw.out[k][j].sup
           /\ \A d \in nw.out[k][j].sup : d[1] = ChannelAt(j)
    /\ \A c \in DOMAIN nw.nets : \A i \in 1..Len(nw.nets[c]) :
         /\ nw.nets[c][i].left.a = nw.nets[c][i].right.a
         /\ \A d \in nw.nets[c][i].left.x1 \cup nw.nets[c][i].left.y1 : d[1] = "L"
         /\ \A d \in nw.nets[c][i].right.x1 \cup nw.nets[c][i].right.y1 : d[1] = "R"

\* A stereo engine of several chains of three stages with two different
\* coefficients has processed a block of two samples, earlier samples
\* still in its delay cells.
C26_Witness ==
    /\ nw.last = "processBlock" /\ nw.channels = 2 /\ nw.activeStages = 3
    /\ nw.series >= 2 /\ Len(nw.out) = 2 /\ nw.n = NetHorizon
    /\ nw.stageCoeffA[1] # nw.stageCoeffA[3]
    /\ Len(nw.out[2][2].hist) = 3 * nw.series

\* The stage updates of chain c in a signal's history.
UpdatesInChain(x, c) == Cardinality({m \in 1..Len(x.hist) : x.hist[m][1] = c})

\* C24: with a fractional stage count v (fractional part above epsilon,
\* floor(v) below the maximum) the forward path runs floor(v) stages fully
\* and exactly one more stage, blended by the fractional part: floor(v) + 1
\* stage updates per chain and sample.
C24_FractionalStageBlended ==
    (nw.last = "processBlock" /\ nw.c20 % 20 # 0 /\ nw.c20 \div 20 < kAmountMax) =>
      \A k \in 1..Len(nw.out) : \A j \in 1..Len(nw.out[k]) :
        \A c \in 1..nw.series :
          UpdatesInChain(nw.out[k][j], c) = (nw.c20 \div 20) + 1

(***************************************************************************)
(* When the coefficients are recomputed, and from which frequencies        *)
(* (specification SpecCoef).                                               *)
(***************************************************************************)
\* The quantized bins of a block's control values.
FreqBinOf(f) == RoundDiv(3 * (jlimit(LogHz(20), LogHz(20000), f) - LogHz(20)), 2500)
ShapeBinOf(sh) == 10 * jlimit(0, 100, sh)

\* The coefficients of a prepared engine e for control values f and sh.
CoefficientsFor(e, f, sh) ==
    [i \in 1..e.activeStages |->
       allpassCoeffFromFreq(StageFreq(e.activeStages, e.amount,
                                      jlimit(LogHz(20), LogHz(20000), f),
                                      jlimit(0, 100, sh), i - 1),
                            e.sampleRate)]

\* C23: a processBlock call of an engine with stages recomputes the stage
\* coefficients exactly when the quantized frequency bin or shape bin of the
\* block's control values differs from the cached bins, and then once, from
\* the block's control values; the first block after setTopology always
\* does; when neither bin changed the coefficients (and the cached values)
\* stay as they are.  An engine without stages has no coefficients and
\* leaves everything as it is.
C23_RecomputeOnBinChange ==
    [][cb'.op = "processBlock" =>
         LET differ == \/ FreqBinOf(cb'.freq) # co.cachedFreqBin
                       \/ ShapeBinOf(cb'.shape) # co.cachedShapeBin
         IN  IF co.amount <= 0 \/ co.activeStages <= 0 THEN co' = co
             ELSE /\ cb.op = "setTopology" => differ
                  /\ ~differ => co' = co
                  /\ differ =>
                       /\ co'.cachedFreqBin = FreqBinOf(cb'.freq)
                       /\ co'.cachedShapeBin = ShapeBinOf(cb'.shape)
                       /\ co.sampleRate > 0 =>
                            co'.stageCoeffA = CoefficientsFor(co, cb'.freq, cb'.shape)]_vars

\* A prepared engine of two stages has processed a block whose bins were the
\* cached ones, after a block that had set them.
C23_Witness ==
    /\ cb.op = "processBlock" /\ co.sampleRate > 0 /\ co.activeStages = 2
    /\ cb.wasFreqBin = co.cachedFreqBin /\ cb.wasShapeBin = co.cachedShapeBin
    /\ co.cachedFreqBin = FreqBinOf(cb.freq) /\ co.cachedShapeBin = ShapeBinOf(cb.shape)
    /\ co.stageCoeffA[1] # co.stageCoeffA[2]

\* 10^6 * log2 (0.49 * sr), rounded.
Log049(sr) ==
    CASE sr = 40000 -> 14258566
      [] sr = 44100 -> 14399345
      [] sr = 48000 -> 14521600

\* C25: every stage frequency a coefficient is derived from lies within
\* [20 Hz, 0.49 * sampleRate], for every accepted sample rate and every
\* frequency, shape and stage count.
C25_StageFreqBelowHalfRate ==
    \A i \in 1..Len(co.stageCoeffA) :
      co.stageCoeffA[i] # ZeroCoeff =>
        /\ LogHz(20) <= co.stageCoeffA[i].freq
        /\ co.stageCoeffA[i].freq <= Log049(co.stageCoeffA[i].sr)

(***************************************************************************)
(* The cursors of an engine (specification SpecOLA).                       *)
(***************************************************************************)
\* Every cursor of engine e is inside its buffer, and the chains and the
\* coefficient vector hold the active stages.
IndicesInRange(e) ==
    /\ 0 <= e.inWritePos /\ e.inWritePos < e.winN
    /\ e.winN = e.ringSize /\ e.winN = e.frameSize
    /\ 0 <= e.hopCounter /\ e.hopCounter < e.hopH
    /\ 0 <= e.olaReadPos /\ e.olaReadPos < e.olaSize
    /\ 0 <= e.olaWritePos /\ e.olaWritePos < e.olaSize
    /\ e.netSize >= e.activeStages /\ e.coeffSize >= e.activeStages

\* C29 as stated: in every reachable state of an engine all its buffer
\* indices are in range.
C29_IndicesInRangeOriginal ==
    IndicesInRange(oe)

\* resetReverseOLA has run on engine e: its reverse buffers exist.
ReverseBuffersExist(e) == e.olaSize > 0

\* C29: in every reachable state an engine whose reverse buffers have been
\* set up (by Engine::init or by setTopology with reverse on) has all its
\* buffer indices in range: 0 <= inWritePos < winN = length of the input
\* rings and frames, 0 <= hopCounter < hopH, 0 <= olaReadPos, olaWritePos
\* < olaSize; a reverse engine always has them set up; and in every
\* reachable state the chains and stageCoeffA of an engine hold at least
\* activeStages entries.
C29_IndicesInRange ==
    /\ ReverseBuffersExist(oe) =>
         /\ IndicesInRange(oe)
         /\ Len(ob.ring) = oe.winN /\ Len(ob.frame) = oe.winN
         /\ Len(ob.ola) = oe.olaSize
    /\ oe.reverse => ReverseBuffersExist(oe)
    /\ oe.netSize >= oe.activeStages /\ oe.coeffSize >= oe.activeStages

\* A reverse engine in the middle of its window and of a hop, its read
\* cursor moving.
C29_Witness ==
    /\ oe.reverse /\ oe.activeStages > 0 /\ oe.winN >= 4
    /\ oe.inWritePos > 0 /\ oe.hopCounter > 0 /\ oe.olaReadPos > 0
    /\ oe.framesReady > 0

====
